---- MODULE Spec2Model ----
(***************************************************************************)
(* TextFlow: the workflow execution engine of App (processWorkflowQueue,   *)
(* executeWorkflow, handleRetryNode, getDescendantNodeIds) together with   *)
(* the handlers that write the node list (duplicateNode, the workspaces    *)
(* initializer).                                                           *)
(*                                                                         *)
(* JavaScript runs every handler and every stretch of an async function    *)
(* between two awaits to completion, so each such stretch is one action.   *)
(* A handler reads the values of the last committed render; the model      *)
(* takes the render to be committed before the next user event.            *)
(* Text is a sequence of tokens, so that joins keep their order.           *)
(*                                                                         *)
(* Spec        the engine with overlapping invocations, duplicateNode and  *)
(*             page reloads                                                *)
(* PayloadSpec one invocation at a time on workspaces with image sources,  *)
(*             the HTML builder, connections in any order of creation and  *)
(*             every outcome of a generation call                          *)
(* DragSpec    one invocation, renders that may lag, and handleMouseMove   *)
(* StubSpec    full runs one after the other with a deterministic provider *)
(* EditSpec    one invocation and the gestures of the editor: selection,   *)
(*             addNode, duplicateNode, updateNodeData, deleteNode,         *)
(*             deleteConnection, handleConnectEnd, the Delete key          *)
(* WorkspacesSpec  one invocation in the Home workspace next to a second   *)
(*             workspace, with the workspace menu, createWorkspace, the    *)
(*             Global Context field and page reloads                       *)
(***************************************************************************)
EXTENDS Integers, Sequences, FiniteSets, TLC

\* ------------------------------------------------------------- bounds
NumNodes == 3        \* nodes of the workspace the application starts with
MaxEdges == 2        \* connections of that workspace
MaxUserOps == 2      \* user gestures (Run, Retry, Duplicate, reload, connect, drag)
MaxProcs == 2        \* scheduler invocations that may be pending at once
MaxDuplicates == 1   \* nodes added by duplicateNode and addNode

\* ------------------------------------------------------------- types.ts
NodeType ==
  {"INPUT", "AI_GENERATOR", "AI_OPTIMIZER", "AI_FACT_CHECK", "AI_CODER",
   "OUTPUT_PREVIEW", "IMAGE_NODE", "AI_BRAINSTORM"}

NodeStatus == {"IDLE", "RUNNING", "COMPLETED", "ERROR"}

\* the value of an optional field that is not set
Undefined == "undefined"

\* NodeComponent: the input handle is not rendered for these kinds
isSourceNode(type) == type \in {"INPUT", "IMAGE_NODE", "AI_BRAINSTORM"}

\* NodeComponent: the output handle is not rendered for Preview
hasOutputHandle(type) == type # "OUTPUT_PREVIEW"

InitialIds == 1..NumNodes
Procs == 1..MaxProcs

VARIABLES
  nodes,            \* activeWorkspace.nodes: id -> NodeData (array order = id order)
  connections,      \* activeWorkspace.connections, in insertion order
  isExecuting,      \* the isExecuting state of App
  pc,               \* per invocation: where the async call chain stands
  currentNodes,     \* per invocation: the local working copy of processWorkflowQueue
  runConnections,   \* per invocation: the connections its closure captured
  nodesToRun,       \* per invocation: the rest of the round's nodesToRun, head in flight
  inflight,         \* per invocation: the awaited operation of the head node
  hasProcessed,     \* per invocation: the loop flag
  runKind,          \* per invocation: the handler that started it, and its argument
  userOps,          \* number of user gestures so far
  onlyFullRuns,     \* no gesture other than a click on Run so far
  rounds,           \* per invocation: rounds that dispatched at least one node
  roundStart,       \* per invocation: the working copy when the round was computed
  ran,              \* per invocation: ids set Running in the current round
  dispatches,       \* per node id: dispatches since the node was last reset
  snapshot,         \* the node list as an observer of the workspace last saw it:
                    \* the committed render (DragSpec), the saved copy (StubSpec)
  activeWorkspaceId,    \* the activeWorkspaceId state of App
  otherWorkspaces,      \* the workspaces other than Home: id -> Workspace
  globalContext,        \* the globalContext of the Home workspace
  runContext,           \* per invocation: activeWorkspace.globalContext in its closure
  selectedNodeId,       \* the selectedNodeId state of App, 0 for null
  selectedConnectionId, \* the selectedConnectionId state of App
  now,                  \* Date.now() as the next node id derived from it
  retryRejected         \* a click on Retry has returned at the isExecuting guard

vars ==
  <<nodes, connections, isExecuting, pc, currentNodes, runConnections,
    nodesToRun, inflight, hasProcessed, runKind, userOps, onlyFullRuns,
    rounds, roundStart, ran, dispatches, snapshot,
    activeWorkspaceId, otherWorkspaces, globalContext, runContext,
    selectedNodeId, selectedConnectionId, now, retryRejected>>

\* the state of the page that the scheduler never writes
editorVars ==
  <<activeWorkspaceId, globalContext, selectedNodeId, selectedConnectionId>>

\* ------------------------------------------------------------- text
\* Array.prototype.join: the parts in order, sep between neighbours
RECURSIVE Join(_, _)
Join(parts, sep) ==
  IF Len(parts) = 0 THEN <<>>
  ELSE IF Len(parts) = 1 THEN parts[1]
  ELSE parts[1] \o <<sep>> \o Join(Tail(parts), sep)

\* the ids of a set in array order
RECURSIVE InOrder(_)
InOrder(S) ==
  IF S = {} THEN <<>>
  ELSE LET m == CHOOSE x \in S : \A y \in S : x <= y
       IN <<m>> \o InOrder(S \ {m})

\* { ...n, ...updates } on the node with this id, every other node as it is
MapUpdate(ns, id, updates) ==
  [i \in DOMAIN ns |->
     IF i = id
     THEN [f \in DOMAIN ns[i] |->
             IF f \in DOMAIN updates THEN updates[f] ELSE ns[i][f]]
     ELSE ns[i]]

\* updateLocalAndState as it would be if every workspace took the node list
\* of the updated one
updateLocalAndStateEveryWorkspace(st, id, updates) ==
  [cur |-> MapUpdate(st.cur, id, updates),
   ws  |-> MapUpdate(st.ws, id, updates),
   others |-> [w \in DOMAIN st.others |->
                 [st.others[w] EXCEPT !.nodes = MapUpdate(st.ws, id, updates)]]]

\* updateLocalAndState: the working copy, the workspace of the run with the
\* node updated, and every other workspace as it is
updateLocalAndState(st, id, updates) ==
  [cur |-> MapUpdate(st.cur, id, updates),
   ws  |-> MapUpdate(st.ws, id, updates),
   others |-> st.others]

\* ------------------------------------------------------------- graph queries
\* connections.filter(c => c.targetId === node.id)
incomingEdges(conns, id) == SelectSeq(conns, LAMBDA c : c.targetId = id)

\* connections.filter(c => c.sourceId === current)
outgoing(conns, id) == SelectSeq(conns, LAMBDA c : c.sourceId = id)

\* visitOutgoing as it would be if a found target were not pushed on the stack
RECURSIVE visitOutgoingNoPush(_, _)
visitOutgoingNoPush(out, st) ==
  IF Len(out) = 0 THEN st
  ELSE visitOutgoingNoPush(Tail(out),
         [st EXCEPT !.descendants = @ \cup {out[1].targetId}])

\* the for loop of getDescendantNodeIds over the outgoing connections of one node
RECURSIVE visitOutgoing(_, _)
visitOutgoing(out, st) ==
  IF Len(out) = 0 THEN st
  ELSE LET t == out[1].targetId
       IN IF t \notin st.descendants
          THEN visitOutgoing(Tail(out),
                 [stack |-> Append(st.stack, t),
                  descendants |-> st.descendants \cup {t}])
          ELSE visitOutgoing(Tail(out), st)

\* the while loop of getDescendantNodeIds: pop, then visit the outgoing connections
RECURSIVE descendantsLoop(_, _)
descendantsLoop(conns, st) ==
  IF Len(st.stack) = 0 THEN st.descendants
  ELSE LET current == st.stack[Len(st.stack)]
           popped == [st EXCEPT !.stack = SubSeq(st.stack, 1, Len(st.stack) - 1)]
       IN descendantsLoop(conns, visitOutgoing(outgoing(conns, current), popped))

\* getDescendantNodeIds as it would be if the start node were marked as seen
\* before the traversal
getDescendantNodeIdsSeenStart(conns, startNodeId) ==
  descendantsLoop(conns, [stack |-> <<startNodeId>>, descendants |-> {startNodeId}])

\* getDescendantNodeIds: the traversal from the start node, nothing seen yet
getDescendantNodeIds(conns, startNodeId) ==
  descendantsLoop(conns, [stack |-> <<startNodeId>>, descendants |-> {}])

\* ------------------------------------------------------------- processWorkflowQueue
\* instantNodes as it would be if Step 1 took up the INPUT nodes only
instantNodesTextOnly(cur) ==
  InOrder({i \in DOMAIN cur : cur[i].type = "INPUT" /\ cur[i].status = "IDLE"})

\* Step 1: the Idle INPUT and IMAGE_NODE nodes of the working copy
instantNodes(cur) ==
  InOrder({i \in DOMAIN cur :
             /\ cur[i].type \in {"INPUT", "IMAGE_NODE"}
             /\ cur[i].status = "IDLE"})

\* instantContent as it would be if Step 1 added to the content of the node
instantContentAppending(node) ==
  node.content \o
    (IF node.type = "INPUT"
     THEN node.userPrompt
     ELSE Join([k \in 1..Len(node.imageUrls) |-> <<node.imageUrls[k]>>], "\n"))

\* node.userPrompt || ''  resp.  node.imageUrls?.join('\n') || ''
instantContent(node) ==
  IF node.type = "INPUT"
  THEN node.userPrompt
  ELSE Join([k \in 1..Len(node.imageUrls) |-> <<node.imageUrls[k]>>], "\n")

RECURSIVE resolveInstant(_, _)
resolveInstant(st, ids) ==
  IF Len(ids) = 0 THEN st
  ELSE resolveInstant(
         updateLocalAndState(st, ids[1],
           [status |-> "COMPLETED", content |-> instantContent(st.cur[ids[1]])]),
         Tail(ids))

\* allSourcesReady as it would be if a source only had to exist
allSourcesPresent(cur, edges) ==
  \A k \in 1..Len(edges) : edges[k].sourceId \in DOMAIN cur

\* incomingEdges.every(edge => sourceNode && sourceNode.status === COMPLETED)
allSourcesReady(cur, edges) ==
  \A k \in 1..Len(edges) :
     /\ edges[k].sourceId \in DOMAIN cur
     /\ cur[edges[k].sourceId].status = "COMPLETED"

\* isRunnable as it would be if a node in ERROR were taken up again
isRunnableRetryingErrors(cur, conns, id) ==
  LET node == cur[id]
      edges == incomingEdges(conns, id)
  IN IF node.status \notin {"IDLE", "ERROR"} THEN FALSE
     ELSE IF node.type = "AI_BRAINSTORM" THEN TRUE
     ELSE IF Len(edges) = 0 /\ node.type # "INPUT" /\ node.type # "IMAGE_NODE"
          THEN FALSE
     ELSE allSourcesReady(cur, edges)

\* isRunnable as it would be without the test for a node that has no input
isRunnableWithoutInputs(cur, conns, id) ==
  LET node == cur[id]
      edges == incomingEdges(conns, id)
  IN IF node.status # "IDLE" THEN FALSE
     ELSE IF node.type = "AI_BRAINSTORM" THEN TRUE
     ELSE allSourcesReady(cur, edges)

\* isRunnable as it would be if a Brainstorm node waited for input like a generator
isRunnableBrainstormWaiting(cur, conns, id) ==
  LET node == cur[id]
      edges == incomingEdges(conns, id)
  IN IF node.status # "IDLE" THEN FALSE
     ELSE IF Len(edges) = 0 /\ node.type # "INPUT" /\ node.type # "IMAGE_NODE"
          THEN FALSE
     ELSE allSourcesReady(cur, edges)

\* the predicate of the nodesToRun filter
isRunnable(cur, conns, id) ==
  LET node == cur[id]
      edges == incomingEdges(conns, id)
  IN IF node.status # "IDLE" THEN FALSE
     ELSE IF node.type = "AI_BRAINSTORM" THEN TRUE
     ELSE IF Len(edges) = 0 /\ node.type # "INPUT" /\ node.type # "IMAGE_NODE"
          THEN FALSE
     ELSE allSourcesReady(cur, edges)

computeNodesToRun(cur, conns) ==
  InOrder({i \in DOMAIN cur : isRunnable(cur, conns, i)})

\* textInputs as it would be if a later connection came first
RECURSIVE textInputsReversed(_, _)
textInputsReversed(cur, edges) ==
  IF Len(edges) = 0 THEN <<>>
  ELSE LET s == edges[1].sourceId
           rest == textInputsReversed(cur, Tail(edges))
       IN IF s \in DOMAIN cur /\ cur[s].type # "IMAGE_NODE"
          THEN rest \o <<cur[s].content>>
          ELSE rest

\* the input gathering loop: the text of the non-image sources, in edge order
RECURSIVE textInputs(_, _)
textInputs(cur, edges) ==
  IF Len(edges) = 0 THEN <<>>
  ELSE LET s == edges[1].sourceId
           rest == textInputs(cur, Tail(edges))
       IN IF s \in DOMAIN cur /\ cur[s].type # "IMAGE_NODE"
          THEN <<cur[s].content>> \o rest
          ELSE rest

\* the input gathering loop: the image urls of the image sources, in edge order
RECURSIVE imageInputs(_, _)
imageInputs(cur, edges) ==
  IF Len(edges) = 0 THEN <<>>
  ELSE LET s == edges[1].sourceId
           rest == imageInputs(cur, Tail(edges))
       IN IF s \in DOMAIN cur /\ cur[s].type = "IMAGE_NODE"
          THEN cur[s].imageUrls \o rest
          ELSE rest

inputTextCombined(cur, edges) == Join(textInputs(cur, edges), "\n\n")

imageList(imgs) == Join([k \in 1..Len(imgs) |-> <<imgs[k]>>], ", ")

\* the prompt handed to generateText
buildPrompt(node, text, imgs) ==
  IF node.type = "AI_BRAINSTORM"
  THEN <<"Generate a list of relevant topics based on the global context provided.">>
  ELSE IF node.type = "AI_CODER" /\ node.customTemplate # <<>>
  THEN <<"CONTENT TO INSERT:">> \o text \o <<"HTML TEMPLATE:">> \o node.customTemplate
       \o <<"INSTRUCTIONS:">>
       \o (IF Len(imgs) > 0 THEN <<"Also, insert these images:">> \o imageList(imgs)
           ELSE <<>>)
  ELSE IF Len(imgs) > 0
  THEN text \o <<"\n\nAvailable Image URLs: ">> \o imageList(imgs)
  ELSE text

NoOp == [id |-> 0, op |-> "none", prompt |-> <<>>, globalContext |-> Undefined]

\* what the loop body awaits for this node: the Preview timer, or generateText
\* with the prompt and the global context it is called with
awaitedOp(cur, conns, id, context) ==
  LET edges == incomingEdges(conns, id)
      text == inputTextCombined(cur, edges)
  IN IF cur[id].type = "OUTPUT_PREVIEW"
     THEN [id |-> id, op |-> "preview", prompt |-> text, globalContext |-> Undefined]
     ELSE [id |-> id, op |-> "generateText",
           prompt |-> buildPrompt(cur[id], text, imageInputs(cur, edges)),
           globalContext |-> context]

\* the text a successful generation call returns for this prompt
Responses(prompt) == {<<"gen">> \o prompt}

\* the message of the error a failed generation call throws
ThrownMessages == {"provider error"}

\* caughtMessage as it would be without the fallback text
caughtMessageNoFallback(m) == m

\* e.message || "Unknown error"
caughtMessage(m) == IF m = "" THEN "Unknown error" ELSE m

\* ------------------------------------------------------------- initial state
\* A node as addNode creates it, with the fields the properties panel edits
NewNode(type, userPrompt, imageUrls, customTemplate) ==
  [type |-> type, status |-> "IDLE", content |-> <<>>, errorMessage |-> Undefined,
   userPrompt |-> userPrompt, imageUrls |-> imageUrls,
   customTemplate |-> customTemplate]

\* The nodes the initial workspace is drawn from: one of each kind the
\* scheduler treats differently when it decides what runs (an instant source,
\* an always eligible generator, a generator that needs input, the sink that
\* calls no provider).
NodeVariants ==
  {NewNode("INPUT", <<"topic">>, <<>>, <<>>),
   NewNode("AI_BRAINSTORM", <<>>, <<>>, <<>>),
   NewNode("AI_GENERATOR", <<>>, <<>>, <<>>),
   NewNode("OUTPUT_PREVIEW", <<>>, <<>>, <<>>)}

\* one connection was made before the other
Before(c, d) ==
  \/ c.sourceId < d.sourceId
  \/ c.sourceId = d.sourceId /\ c.targetId < d.targetId

\* The connections handleConnectEnd can have created between these nodes: from
\* an output handle to an input handle of another node, no pair twice. The
\* initial workspace lists them in one order of creation.
ConnectionLists(ns) ==
  LET Pairs == {c \in [sourceId : DOMAIN ns, targetId : DOMAIN ns] :
                  /\ c.sourceId # c.targetId
                  /\ hasOutputHandle(ns[c.sourceId].type)
                  /\ ~isSourceNode(ns[c.targetId].type)}
  IN {cs \in UNION {[1..k -> Pairs] : k \in 0..MaxEdges} :
        \A i, j \in DOMAIN cs : i < j => Before(cs[i], cs[j])}

AllIds == 1..(NumNodes + MaxDuplicates)

\* the id of the workspace that nodes, connections and globalContext belong to
Home == 1

\* DEFAULT_WORKSPACE.globalContext
DefaultContext == "Company Name: FutureTech Inc."

\* no connection is selected
NoConnection == [sourceId |-> 0, targetId |-> 0]

\* The page as it loads with one workspace: nothing selected, no run started
InitPage ==
  /\ activeWorkspaceId = Home
  /\ otherWorkspaces = <<>>
  /\ globalContext = DefaultContext
  /\ runContext = [p \in Procs |-> Undefined]
  /\ selectedNodeId = 0
  /\ selectedConnectionId = NoConnection
  /\ now = NumNodes + 1
  /\ retryRejected = FALSE

NoNodes == <<>>

NoRun == [op |-> "none", nodeId |-> 0]

Init ==
  /\ nodes \in [InitialIds -> NodeVariants]
  /\ connections \in ConnectionLists(nodes)
  /\ isExecuting = FALSE
  /\ pc = [p \in Procs |-> "idle"]
  /\ currentNodes = [p \in Procs |-> NoNodes]
  /\ runConnections = [p \in Procs |-> <<>>]
  /\ nodesToRun = [p \in Procs |-> <<>>]
  /\ inflight = [p \in Procs |-> NoOp]
  /\ hasProcessed = [p \in Procs |-> FALSE]
  /\ runKind = [p \in Procs |-> NoRun]
  /\ userOps = 0
  /\ onlyFullRuns = TRUE
  /\ rounds = [p \in Procs |-> 0]
  /\ roundStart = [p \in Procs |-> NoNodes]
  /\ ran = [p \in Procs |-> {}]
  /\ dispatches = [i \in AllIds |-> 0]
  /\ snapshot = NoNodes
  /\ InitPage

\* ------------------------------------------------------------- the async call chain
\* an invocation slot that holds no pending call chain
Free(p) == pc[p] \in {"idle", "done"}

FirstFree(p) == Free(p) /\ \A q \in Procs : q < p => ~Free(q)

Bump(n) == IF n < 2 THEN n + 1 ELSE n

\* closureContext as it would be if the call read the workspace as it is now
liveContext(p) == globalContext

\* activeWorkspace.globalContext where processWorkflowQueue reads it: the
\* workspace of the render in which the run was started
closureContext(p) == runContext[p]

\* The loop body from the point where the previous node has settled: set the
\* next node of nodesToRun Running, gather its inputs and await its operation;
\* after the last node, await the pause that ends the round.
Advance(p, st, queue, isNewRound) ==
  /\ nodes' = IF Len(queue) = 0 THEN st.ws
              ELSE updateLocalAndState(st, Head(queue),
                     [status |-> "RUNNING", errorMessage |-> Undefined]).ws
  /\ otherWorkspaces' =
       IF Len(queue) = 0 THEN st.others
       ELSE updateLocalAndState(st, Head(queue),
              [status |-> "RUNNING", errorMessage |-> Undefined]).others
  /\ currentNodes' =
       [currentNodes EXCEPT ![p] =
          IF Len(queue) = 0 THEN st.cur
          ELSE updateLocalAndState(st, Head(queue),
                 [status |-> "RUNNING", errorMessage |-> Undefined]).cur]
  /\ nodesToRun' = [nodesToRun EXCEPT ![p] = queue]
  /\ inflight' =
       [inflight EXCEPT ![p] =
          IF Len(queue) = 0 THEN NoOp
          ELSE awaitedOp(
                 updateLocalAndState(st, Head(queue),
                   [status |-> "RUNNING", errorMessage |-> Undefined]).cur,
                 runConnections[p], Head(queue), closureContext(p))]
  /\ pc' = [pc EXCEPT ![p] = IF Len(queue) = 0 THEN "sleep" ELSE "await"]
  /\ hasProcessed' =
       [hasProcessed EXCEPT ![p] = IF isNewRound THEN Len(queue) > 0 ELSE TRUE]
  /\ rounds' =
       [rounds EXCEPT ![p] = IF isNewRound /\ Len(queue) > 0 THEN @ + 1 ELSE @]
  /\ roundStart' = [roundStart EXCEPT ![p] = IF isNewRound THEN st.cur ELSE @]
  /\ ran' =
       [ran EXCEPT ![p] =
          (IF isNewRound THEN {} ELSE @)
            \cup (IF Len(queue) = 0 THEN {} ELSE {Head(queue)})]
  /\ dispatches' =
       IF Len(queue) = 0 THEN dispatches
       ELSE [dispatches EXCEPT ![Head(queue)] = Bump(@)]

\* beginRound as it would be if the run after a retry took up only the node
\* retried and its descendants
beginRoundResetSetOnly(p, st) ==
  Advance(p, st,
    SelectSeq(computeNodesToRun(st.cur, runConnections[p]),
      LAMBDA i : \/ runKind[p].op = "run"
                 \/ i = runKind[p].nodeId
                 \/ i \in getDescendantNodeIds(runConnections[p], runKind[p].nodeId)),
    TRUE)

\* beginRound as it would be if a pass read the connections of the workspace as
\* they are now
beginRoundLiveConnections(p, st) ==
  Advance(p, st, computeNodesToRun(st.cur, connections), TRUE)

\* one pass of the while loop up to its first await
beginRound(p, st) ==
  Advance(p, st, computeNodesToRun(st.cur, runConnections[p]), TRUE)

\* executeWorkflow up to its await: every node of the active workspace back
\* to IDLE. The Run button is disabled while isExecuting.
executeWorkflow(p) ==
  /\ activeWorkspaceId = Home
  /\ FirstFree(p)
  /\ userOps < MaxUserOps
  /\ ~isExecuting
  /\ LET resetNodes ==
           [i \in DOMAIN nodes |->
              [nodes[i] EXCEPT !.status = "IDLE", !.errorMessage = Undefined]]
     IN /\ nodes' = resetNodes
        /\ currentNodes' = [currentNodes EXCEPT ![p] = resetNodes]
        /\ dispatches' = [i \in AllIds |-> IF i \in DOMAIN nodes THEN 0 ELSE dispatches[i]]
  /\ runConnections' = [runConnections EXCEPT ![p] = connections]
  /\ pc' = [pc EXCEPT ![p] = "delay"]
  /\ runKind' = [runKind EXCEPT ![p] = [op |-> "run", nodeId |-> 0]]
  /\ nodesToRun' = [nodesToRun EXCEPT ![p] = <<>>]
  /\ inflight' = [inflight EXCEPT ![p] = NoOp]
  /\ hasProcessed' = [hasProcessed EXCEPT ![p] = FALSE]
  /\ rounds' = [rounds EXCEPT ![p] = 0]
  /\ roundStart' = [roundStart EXCEPT ![p] = NoNodes]
  /\ ran' = [ran EXCEPT ![p] = {}]
  /\ userOps' = userOps + 1
  /\ runContext' = [runContext EXCEPT ![p] = globalContext]
  /\ UNCHANGED onlyFullRuns
  /\ UNCHANGED retryRejected
  /\ UNCHANGED <<connections, isExecuting, snapshot, now, otherWorkspaces,
                 editorVars>>

\* the set handleRetryNode resets
nodesToReset(conns, nodeId) == {nodeId} \cup getDescendantNodeIds(conns, nodeId)

\* handleRetryNode as it would be without the early return while isExecuting
handleRetryNodeUnguarded(p, nodeId) ==
  /\ activeWorkspaceId = Home
  /\ FirstFree(p)
  /\ userOps < MaxUserOps
  /\ nodeId \in DOMAIN nodes
  /\ LET updatedNodes ==
           [i \in DOMAIN nodes |->
              IF i \in nodesToReset(connections, nodeId)
              THEN [nodes[i] EXCEPT !.status = "IDLE", !.errorMessage = Undefined]
              ELSE nodes[i]]
     IN /\ nodes' = updatedNodes
        /\ currentNodes' = [currentNodes EXCEPT ![p] = updatedNodes]
        /\ dispatches' =
             [i \in AllIds |->
                IF i \in nodesToReset(connections, nodeId) THEN 0 ELSE dispatches[i]]
  /\ runConnections' = [runConnections EXCEPT ![p] = connections]
  /\ pc' = [pc EXCEPT ![p] = "delay"]
  /\ runKind' = [runKind EXCEPT ![p] = [op |-> "retry", nodeId |-> nodeId]]
  /\ nodesToRun' = [nodesToRun EXCEPT ![p] = <<>>]
  /\ inflight' = [inflight EXCEPT ![p] = NoOp]
  /\ hasProcessed' = [hasProcessed EXCEPT ![p] = FALSE]
  /\ rounds' = [rounds EXCEPT ![p] = 0]
  /\ roundStart' = [roundStart EXCEPT ![p] = NoNodes]
  /\ ran' = [ran EXCEPT ![p] = {}]
  /\ userOps' = userOps + 1
  /\ runContext' = [runContext EXCEPT ![p] = globalContext]
  /\ onlyFullRuns' = FALSE
  /\ UNCHANGED retryRejected
  /\ UNCHANGED <<connections, isExecuting, snapshot, now, otherWorkspaces,
                 editorVars>>

\* handleRetryNode up to its await, from the node's retry button or its context
\* menu: the target and its descendants back to IDLE
handleRetryNode(p, nodeId) ==
  /\ activeWorkspaceId = Home
  /\ FirstFree(p)
  /\ userOps < MaxUserOps
  /\ nodeId \in DOMAIN nodes
  /\ ~isExecuting
  /\ LET updatedNodes ==
           [i \in DOMAIN nodes |->
              IF i \in nodesToReset(connections, nodeId)
              THEN [nodes[i] EXCEPT !.status = "IDLE", !.errorMessage = Undefined]
              ELSE nodes[i]]
     IN /\ nodes' = updatedNodes
        /\ currentNodes' = [currentNodes EXCEPT ![p] = updatedNodes]
        /\ dispatches' =
             [i \in AllIds |->
                IF i \in nodesToReset(connections, nodeId) THEN 0 ELSE dispatches[i]]
  /\ runConnections' = [runConnections EXCEPT ![p] = connections]
  /\ pc' = [pc EXCEPT ![p] = "delay"]
  /\ runKind' = [runKind EXCEPT ![p] = [op |-> "retry", nodeId |-> nodeId]]
  /\ nodesToRun' = [nodesToRun EXCEPT ![p] = <<>>]
  /\ inflight' = [inflight EXCEPT ![p] = NoOp]
  /\ hasProcessed' = [hasProcessed EXCEPT ![p] = FALSE]
  /\ rounds' = [rounds EXCEPT ![p] = 0]
  /\ roundStart' = [roundStart EXCEPT ![p] = NoNodes]
  /\ ran' = [ran EXCEPT ![p] = {}]
  /\ userOps' = userOps + 1
  /\ runContext' = [runContext EXCEPT ![p] = globalContext]
  /\ onlyFullRuns' = FALSE
  /\ UNCHANGED retryRejected
  /\ UNCHANGED <<connections, isExecuting, snapshot, now, otherWorkspaces,
                 editorVars>>

\* handleRetryNode while isExecuting: the early return
handleRetryNodeRejected(nodeId) ==
  /\ userOps < MaxUserOps
  /\ nodeId \in DOMAIN nodes
  /\ isExecuting
  /\ userOps' = userOps + 1
  /\ retryRejected' = TRUE
  /\ onlyFullRuns' = FALSE
  /\ UNCHANGED <<nodes, connections, isExecuting, pc, currentNodes, runConnections,
                 nodesToRun, inflight, hasProcessed, runKind, rounds, roundStart,
                 ran, dispatches, snapshot, now, runContext, otherWorkspaces,
                 editorVars>>

\* processWorkflowQueue from its call, after the 50 ms delay of its caller, to
\* its first await: setIsExecuting(true), Step 1 and the first pass of the loop
processWorkflowQueue(p) ==
  /\ pc[p] = "delay"
  /\ isExecuting' = TRUE
  /\ beginRound(p, resolveInstant([cur |-> currentNodes[p], ws |-> nodes,
          others |-> otherWorkspaces],
                                  instantNodes(currentNodes[p])))
  /\ UNCHANGED retryRejected
  /\ UNCHANGED <<connections, runConnections, runKind, userOps,
                 onlyFullRuns, snapshot, now, runContext, editorVars>>

\* the Preview timer fires: the node completes with the gathered text
settlePreview(p) ==
  /\ pc[p] = "await"
  /\ inflight[p].op = "preview"
  /\ Advance(p,
       updateLocalAndState([cur |-> currentNodes[p], ws |-> nodes,
          others |-> otherWorkspaces], inflight[p].id,
         [status |-> "COMPLETED", content |-> inflight[p].prompt]),
       Tail(nodesToRun[p]), FALSE)
  /\ UNCHANGED retryRejected
  /\ UNCHANGED <<connections, isExecuting, runConnections, runKind, userOps,
                 onlyFullRuns, snapshot, now, runContext, editorVars>>

\* generateText resolves: the node completes with the returned text
settleFulfilled(p) ==
  /\ pc[p] = "await"
  /\ inflight[p].op = "generateText"
  /\ \E result \in Responses(inflight[p].prompt) :
       Advance(p,
         updateLocalAndState([cur |-> currentNodes[p], ws |-> nodes,
          others |-> otherWorkspaces], inflight[p].id,
           [status |-> "COMPLETED", content |-> result]),
         Tail(nodesToRun[p]), FALSE)
  /\ UNCHANGED retryRejected
  /\ UNCHANGED <<connections, isExecuting, runConnections, runKind, userOps,
                 onlyFullRuns, snapshot, now, runContext, editorVars>>

\* settleRejected as it would be if the failure left the loop: the rest of the
\* round is dropped and the loop flag cleared
settleRejectedAborting(p) ==
  /\ pc[p] = "await"
  /\ inflight[p].op = "generateText"
  /\ \E m \in ThrownMessages :
       Advance(p,
         updateLocalAndState([cur |-> currentNodes[p], ws |-> nodes,
          others |-> otherWorkspaces], inflight[p].id,
           [status |-> "ERROR", errorMessage |-> caughtMessage(m)]),
         <<>>, TRUE)
  /\ UNCHANGED retryRejected
  /\ UNCHANGED <<connections, isExecuting, runConnections, runKind, userOps,
                 onlyFullRuns, snapshot, now, runContext, editorVars>>

\* settleRejected as it would be if a failed node went back to IDLE to be tried
\* again
settleRejectedRequeueing(p) ==
  /\ pc[p] = "await"
  /\ inflight[p].op = "generateText"
  /\ \E m \in ThrownMessages :
       Advance(p,
         updateLocalAndState([cur |-> currentNodes[p], ws |-> nodes,
          others |-> otherWorkspaces], inflight[p].id,
           [status |-> "IDLE", errorMessage |-> caughtMessage(m)]),
         Tail(nodesToRun[p]), FALSE)
  /\ UNCHANGED retryRejected
  /\ UNCHANGED <<connections, isExecuting, runConnections, runKind, userOps,
                 onlyFullRuns, snapshot, now, runContext, editorVars>>

\* generateText rejects: the catch block marks the node
settleRejected(p) ==
  /\ pc[p] = "await"
  /\ inflight[p].op = "generateText"
  /\ \E m \in ThrownMessages :
       Advance(p,
         updateLocalAndState([cur |-> currentNodes[p], ws |-> nodes,
          others |-> otherWorkspaces], inflight[p].id,
           [status |-> "ERROR", errorMessage |-> caughtMessage(m)]),
         Tail(nodesToRun[p]), FALSE)
  /\ UNCHANGED retryRejected
  /\ UNCHANGED <<connections, isExecuting, runConnections, runKind, userOps,
                 onlyFullRuns, snapshot, now, runContext, editorVars>>

\* nextRound as it would be if the next pass did not wait for the awaited node
nextRoundBeforeSettled(p) ==
  /\ pc[p] \in {"sleep", "await"}
  /\ hasProcessed[p]
  /\ beginRound(p, [cur |-> currentNodes[p], ws |-> nodes,
          others |-> otherWorkspaces])
  /\ UNCHANGED retryRejected
  /\ UNCHANGED <<connections, isExecuting, runConnections, runKind, userOps,
                 onlyFullRuns, snapshot, now, runContext, editorVars>>

\* the 100 ms pause ends after a round that dispatched: the next pass of the loop
nextRound(p) ==
  /\ pc[p] = "sleep"
  /\ hasProcessed[p]
  /\ beginRound(p, [cur |-> currentNodes[p], ws |-> nodes,
          others |-> otherWorkspaces])
  /\ UNCHANGED retryRejected
  /\ UNCHANGED <<connections, isExecuting, runConnections, runKind, userOps,
                 onlyFullRuns, snapshot, now, runContext, editorVars>>

\* finishQueue as it would be if the end of the loop marked the nodes it never
\* reached
finishQueueMarkingIdle(p) ==
  /\ pc[p] = "sleep"
  /\ ~hasProcessed[p]
  /\ nodes' = [i \in DOMAIN nodes |->
                 IF nodes[i].status = "IDLE"
                 THEN [nodes[i] EXCEPT !.status = "ERROR"]
                 ELSE nodes[i]]
  /\ isExecuting' = FALSE
  /\ pc' = [pc EXCEPT ![p] = "done"]
  /\ currentNodes' = [currentNodes EXCEPT ![p] = NoNodes]
  /\ runConnections' = [runConnections EXCEPT ![p] = <<>>]
  /\ runKind' = [runKind EXCEPT ![p] = NoRun]
  /\ rounds' = [rounds EXCEPT ![p] = 0]
  /\ roundStart' = [roundStart EXCEPT ![p] = NoNodes]
  /\ runContext' = [runContext EXCEPT ![p] = Undefined]
  /\ UNCHANGED retryRejected
  /\ UNCHANGED <<connections, nodesToRun, inflight, hasProcessed, userOps,
                 onlyFullRuns, ran, dispatches, snapshot, now, otherWorkspaces,
                 editorVars>>

\* finishQueue as it would be if the loop were left after any round
finishQueueAfterAnyRound(p) ==
  /\ pc[p] = "sleep"
  /\ isExecuting' = FALSE
  /\ pc' = [pc EXCEPT ![p] = "done"]
  /\ currentNodes' = [currentNodes EXCEPT ![p] = NoNodes]
  /\ runConnections' = [runConnections EXCEPT ![p] = <<>>]
  /\ runKind' = [runKind EXCEPT ![p] = NoRun]
  /\ rounds' = [rounds EXCEPT ![p] = 0]
  /\ roundStart' = [roundStart EXCEPT ![p] = NoNodes]
  /\ runContext' = [runContext EXCEPT ![p] = Undefined]
  /\ UNCHANGED retryRejected
  /\ UNCHANGED <<nodes, connections, nodesToRun, inflight, hasProcessed, userOps,
                 onlyFullRuns, ran, dispatches, snapshot, now, otherWorkspaces,
                 editorVars>>

\* the pause ends after a round that dispatched nothing: the loop is left, the
\* finally block runs and the locals of the call go out of scope
finishQueue(p) ==
  /\ pc[p] = "sleep"
  /\ ~hasProcessed[p]
  /\ isExecuting' = FALSE
  /\ pc' = [pc EXCEPT ![p] = "done"]
  /\ currentNodes' = [currentNodes EXCEPT ![p] = NoNodes]
  /\ runConnections' = [runConnections EXCEPT ![p] = <<>>]
  /\ runKind' = [runKind EXCEPT ![p] = NoRun]
  /\ rounds' = [rounds EXCEPT ![p] = 0]
  /\ roundStart' = [roundStart EXCEPT ![p] = NoNodes]
  /\ runContext' = [runContext EXCEPT ![p] = Undefined]
  /\ UNCHANGED retryRejected
  /\ UNCHANGED <<nodes, connections, nodesToRun, inflight, hasProcessed, userOps,
                 onlyFullRuns,
                 ran, dispatches, snapshot, now, otherWorkspaces,
                 editorVars>>

\* ------------------------------------------------------------- other writers of the node list
NumDuplicated == Cardinality(DOMAIN nodes) - NumNodes

\* duplicateNode: a copy of the node, IDLE and with empty content, at the end
duplicateNode(id) ==
  /\ userOps < MaxUserOps
  /\ NumDuplicated < MaxDuplicates
  /\ now \in AllIds
  /\ id \in DOMAIN nodes
  /\ LET newId == now
         newNode == [nodes[id] EXCEPT !.status = "IDLE", !.content = <<>>]
     IN nodes' = [i \in DOMAIN nodes \cup {newId} |->
                    IF i = newId THEN newNode ELSE nodes[i]]
  /\ now' = now + 1
  /\ selectedNodeId' = now
  /\ userOps' = userOps + 1
  /\ onlyFullRuns' = FALSE
  /\ UNCHANGED retryRejected
  /\ UNCHANGED <<connections, isExecuting, pc, currentNodes, runConnections,
                 nodesToRun, inflight, hasProcessed, runKind, rounds, roundStart,
                 ran, dispatches, snapshot, runContext, activeWorkspaceId,
                 otherWorkspaces, globalContext, selectedConnectionId>>

\* ws.nodes.map(n => n.status === RUNNING ? { ...n, status: IDLE } : n)
loadNodes(ns) ==
  [i \in DOMAIN ns |->
     IF ns[i].status = "RUNNING" THEN [ns[i] EXCEPT !.status = "IDLE"] ELSE ns[i]]

\* reloadPage as it would be if the initializer went through the nodes of the
\* active workspace only
reloadPageActiveWorkspaceOnly ==
  /\ userOps < MaxUserOps
  /\ nodes' = IF activeWorkspaceId = Home THEN loadNodes(nodes) ELSE nodes
  /\ otherWorkspaces' =
       [w \in DOMAIN otherWorkspaces |->
          IF w = activeWorkspaceId
          THEN [otherWorkspaces[w] EXCEPT !.nodes = loadNodes(@)]
          ELSE otherWorkspaces[w]]
  /\ selectedNodeId' = 0
  /\ selectedConnectionId' = NoConnection
  /\ isExecuting' = FALSE
  /\ pc' = [p \in Procs |-> "idle"]
  /\ currentNodes' = [p \in Procs |-> NoNodes]
  /\ runConnections' = [p \in Procs |-> <<>>]
  /\ nodesToRun' = [p \in Procs |-> <<>>]
  /\ inflight' = [p \in Procs |-> NoOp]
  /\ hasProcessed' = [p \in Procs |-> FALSE]
  /\ runKind' = [p \in Procs |-> NoRun]
  /\ rounds' = [p \in Procs |-> 0]
  /\ roundStart' = [p \in Procs |-> NoNodes]
  /\ ran' = [p \in Procs |-> {}]
  /\ dispatches' = [i \in AllIds |->
                      IF i \in DOMAIN nodes /\ nodes[i].status = "RUNNING"
                      THEN 0 ELSE dispatches[i]]
  /\ userOps' = userOps + 1
  /\ onlyFullRuns' = FALSE
  /\ runContext' = [p \in Procs |-> Undefined]
  /\ UNCHANGED retryRejected
  /\ UNCHANGED <<connections, snapshot, now, activeWorkspaceId, globalContext>>

\* The page is reloaded: every pending call chain dies, the workspaces
\* initializer loads every persisted workspace with RUNNING turned into IDLE,
\* and the interaction state starts from its defaults.
reloadPage ==
  /\ userOps < MaxUserOps
  /\ nodes' = loadNodes(nodes)
  /\ otherWorkspaces' =
       [w \in DOMAIN otherWorkspaces |->
          [otherWorkspaces[w] EXCEPT !.nodes = loadNodes(@)]]
  /\ selectedNodeId' = 0
  /\ selectedConnectionId' = NoConnection
  /\ isExecuting' = FALSE
  /\ pc' = [p \in Procs |-> "idle"]
  /\ currentNodes' = [p \in Procs |-> NoNodes]
  /\ runConnections' = [p \in Procs |-> <<>>]
  /\ nodesToRun' = [p \in Procs |-> <<>>]
  /\ inflight' = [p \in Procs |-> NoOp]
  /\ hasProcessed' = [p \in Procs |-> FALSE]
  /\ runKind' = [p \in Procs |-> NoRun]
  /\ rounds' = [p \in Procs |-> 0]
  /\ roundStart' = [p \in Procs |-> NoNodes]
  /\ ran' = [p \in Procs |-> {}]
  /\ dispatches' = [i \in AllIds |->
                      IF i \in DOMAIN nodes /\ nodes[i].status = "RUNNING"
                      THEN 0 ELSE dispatches[i]]
  /\ userOps' = userOps + 1
  /\ onlyFullRuns' = FALSE
  /\ runContext' = [p \in Procs |-> Undefined]
  /\ UNCHANGED retryRejected
  /\ UNCHANGED <<connections, snapshot, now, activeWorkspaceId, globalContext>>

Next ==
  \/ \E p \in Procs : executeWorkflow(p)
  \/ \E p \in Procs : \E id \in AllIds : handleRetryNode(p, id)
  \/ \E id \in AllIds : handleRetryNodeRejected(id)
  \/ \E p \in Procs : processWorkflowQueue(p)
  \/ \E p \in Procs : settlePreview(p)
  \/ \E p \in Procs : settleFulfilled(p)
  \/ \E p \in Procs : settleRejected(p)
  \/ \E p \in Procs : nextRound(p)
  \/ \E p \in Procs : finishQueue(p)
  \/ \E id \in AllIds : duplicateNode(id)
  \/ reloadPage

Spec == Init /\ [][Next]_vars

\* ------------------------------------------------------------- payloads
\* generateText resolves with a response without text: response.text || ""
settleFulfilledEmpty(p) ==
  /\ pc[p] = "await"
  /\ inflight[p].op = "generateText"
  /\ Advance(p,
       updateLocalAndState([cur |-> currentNodes[p], ws |-> nodes,
          others |-> otherWorkspaces], inflight[p].id,
         [status |-> "COMPLETED", content |-> <<>>]),
       Tail(nodesToRun[p]), FALSE)
  /\ UNCHANGED retryRejected
  /\ UNCHANGED <<connections, isExecuting, runConnections, runKind, userOps,
                 onlyFullRuns, snapshot, now, runContext, editorVars>>

\* generateText rejects with a value that carries no message
settleRejectedNoMessage(p) ==
  /\ pc[p] = "await"
  /\ inflight[p].op = "generateText"
  /\ Advance(p,
       updateLocalAndState([cur |-> currentNodes[p], ws |-> nodes,
          others |-> otherWorkspaces], inflight[p].id,
         [status |-> "ERROR", errorMessage |-> caughtMessage("")]),
       Tail(nodesToRun[p]), FALSE)
  /\ UNCHANGED retryRejected
  /\ UNCHANGED <<connections, isExecuting, runConnections, runKind, userOps,
                 onlyFullRuns, snapshot, now, runContext, editorVars>>

\* handleConnectEnd as it would be without the search for an existing connection
handleConnectEndWithoutFind(sourceId, targetId) ==
  /\ userOps < MaxUserOps
  /\ Len(connections) < MaxEdges
  /\ sourceId \in DOMAIN nodes /\ targetId \in DOMAIN nodes
  /\ hasOutputHandle(nodes[sourceId].type)
  /\ ~isSourceNode(nodes[targetId].type)
  /\ sourceId # targetId
  /\ connections' = Append(connections, [sourceId |-> sourceId, targetId |-> targetId])
  /\ userOps' = userOps + 1
  /\ onlyFullRuns' = FALSE
  /\ UNCHANGED retryRejected
  /\ UNCHANGED <<nodes, isExecuting, pc, currentNodes, runConnections,
                 nodesToRun, inflight, hasProcessed, runKind, rounds, roundStart,
                 ran, dispatches, snapshot, now, runContext, otherWorkspaces,
                 editorVars>>

\* handleConnectEnd: a drag from the output handle of one node to the input
\* handle of another appends a connection, unless the pair is connected
handleConnectEnd(sourceId, targetId) ==
  /\ userOps < MaxUserOps
  /\ Len(connections) < MaxEdges
  /\ sourceId \in DOMAIN nodes /\ targetId \in DOMAIN nodes
  /\ hasOutputHandle(nodes[sourceId].type)
  /\ ~isSourceNode(nodes[targetId].type)
  /\ sourceId # targetId
  /\ ~\E k \in DOMAIN connections :
        connections[k].sourceId = sourceId /\ connections[k].targetId = targetId
  /\ connections' = Append(connections, [sourceId |-> sourceId, targetId |-> targetId])
  /\ userOps' = userOps + 1
  /\ onlyFullRuns' = FALSE
  /\ UNCHANGED retryRejected
  /\ UNCHANGED <<nodes, isExecuting, pc, currentNodes, runConnections,
                 nodesToRun, inflight, hasProcessed, runKind, rounds, roundStart,
                 ran, dispatches, snapshot, now, runContext, otherWorkspaces,
                 editorVars>>

\* The nodes that feed a consumer in the payload workspaces: text with and
\* without a prompt, images, and the generator that needs no input
PayloadSources ==
  {NewNode("INPUT", <<"topic">>, <<>>, <<>>),
   NewNode("INPUT", <<>>, <<>>, <<>>),
   NewNode("IMAGE_NODE", <<>>, <<"u1", "u2">>, <<>>),
   NewNode("AI_BRAINSTORM", <<>>, <<>>, <<>>)}

\* The consumers: the sink, the HTML builder with its template and as addNode
\* creates it (customTemplate ''), a plain generator
PayloadConsumers ==
  {NewNode("OUTPUT_PREVIEW", <<>>, <<>>, <<>>),
   NewNode("AI_CODER", <<>>, <<>>, <<"tpl">>),
   NewNode("AI_CODER", <<>>, <<>>, <<>>),
   NewNode("AI_GENERATOR", <<>>, <<>>, <<>>)}

\* The connections handleConnectEnd can have created, in any order of creation
ConnectionListsAnyOrder(ns) ==
  LET Pairs == {c \in [sourceId : DOMAIN ns, targetId : DOMAIN ns] :
                  /\ c.sourceId # c.targetId
                  /\ hasOutputHandle(ns[c.sourceId].type)
                  /\ ~isSourceNode(ns[c.targetId].type)}
  IN {cs \in UNION {[1..k -> Pairs] : k \in 0..MaxEdges} :
        \A i, j \in DOMAIN cs : i # j => cs[i] # cs[j]}

\* Workspaces of two feeding nodes and one consumer
InitPayload ==
  /\ nodes \in {ns \in [InitialIds -> PayloadSources \cup PayloadConsumers] :
                  \A i \in InitialIds :
                     IF i = NumNodes THEN ns[i] \in PayloadConsumers
                     ELSE ns[i] \in PayloadSources}
  /\ connections \in ConnectionListsAnyOrder(nodes)
  /\ isExecuting = FALSE
  /\ pc = [p \in Procs |-> "idle"]
  /\ currentNodes = [p \in Procs |-> NoNodes]
  /\ runConnections = [p \in Procs |-> <<>>]
  /\ nodesToRun = [p \in Procs |-> <<>>]
  /\ inflight = [p \in Procs |-> NoOp]
  /\ hasProcessed = [p \in Procs |-> FALSE]
  /\ runKind = [p \in Procs |-> NoRun]
  /\ userOps = 0
  /\ onlyFullRuns = TRUE
  /\ rounds = [p \in Procs |-> 0]
  /\ roundStart = [p \in Procs |-> NoNodes]
  /\ ran = [p \in Procs |-> {}]
  /\ dispatches = [i \in AllIds |-> 0]
  /\ snapshot = NoNodes
  /\ InitPage

\* One invocation at a time, in the first slot: the overlap of invocations is
\* the subject of Spec.
NextPayload ==
  \/ executeWorkflow(1)
  \/ \E id \in AllIds : handleRetryNode(1, id)
  \/ processWorkflowQueue(1)
  \/ settlePreview(1)
  \/ settleFulfilled(1)
  \/ settleFulfilledEmpty(1)
  \/ settleRejected(1)
  \/ settleRejectedNoMessage(1)
  \/ nextRound(1)
  \/ finishQueue(1)
  \/ \E a, b \in AllIds : handleConnectEnd(a, b)

PayloadSpec == InitPayload /\ [][NextPayload]_vars

\* ------------------------------------------------------------- renders that lag
\* React commits the render of a queued update some time after the update.
\* Until then the handlers of the page are those of the previous render and
\* hold its node list.
render ==
  /\ snapshot # nodes
  /\ snapshot' = nodes
  /\ UNCHANGED retryRejected
  /\ UNCHANGED <<nodes, connections, isExecuting, pc, currentNodes, runConnections,
                 nodesToRun, inflight, hasProcessed, runKind, userOps, onlyFullRuns,
                 rounds, roundStart, ran, dispatches, now, runContext,
                 otherWorkspaces,
                 editorVars>>

\* the fields of a node that the model does not hold (x, y, title, ...)
NoUpdates == <<>>

\* handleMouseMove while a node is dragged: the node list of the render, with
\* the dragged node moved, replaces the node list of the workspace
handleMouseMove(draggedNodeId) ==
  /\ userOps < MaxUserOps
  /\ draggedNodeId \in DOMAIN snapshot
  /\ nodes' = MapUpdate(snapshot, draggedNodeId, NoUpdates)
  /\ userOps' = userOps + 1
  /\ onlyFullRuns' = FALSE
  /\ UNCHANGED retryRejected
  /\ UNCHANGED <<connections, isExecuting, pc, currentNodes, runConnections,
                 nodesToRun, inflight, hasProcessed, runKind, rounds, roundStart,
                 ran, dispatches, snapshot, now, runContext, otherWorkspaces,
                 editorVars>>

\* The page has rendered the workspace it starts with
InitDrag ==
  /\ nodes \in [InitialIds -> NodeVariants]
  /\ connections \in ConnectionLists(nodes)
  /\ isExecuting = FALSE
  /\ pc = [p \in Procs |-> "idle"]
  /\ currentNodes = [p \in Procs |-> NoNodes]
  /\ runConnections = [p \in Procs |-> <<>>]
  /\ nodesToRun = [p \in Procs |-> <<>>]
  /\ inflight = [p \in Procs |-> NoOp]
  /\ hasProcessed = [p \in Procs |-> FALSE]
  /\ runKind = [p \in Procs |-> NoRun]
  /\ userOps = 0
  /\ onlyFullRuns = TRUE
  /\ rounds = [p \in Procs |-> 0]
  /\ roundStart = [p \in Procs |-> NoNodes]
  /\ ran = [p \in Procs |-> {}]
  /\ dispatches = [i \in AllIds |-> 0]
  /\ snapshot = nodes
  /\ InitPage

\* the page shows the workspace as it is
Rendered == snapshot = nodes

\* One invocation at a time. A render is committed within a frame, long before
\* a timer of the scheduler or a response of the provider is due, so the click
\* on Run and every step of the scheduler find the page rendered; a mouse move
\* can arrive between an update and its render.
NextDrag ==
  \/ Rendered /\ executeWorkflow(1)
  \/ Rendered /\ processWorkflowQueue(1)
  \/ Rendered /\ settlePreview(1)
  \/ Rendered /\ settleFulfilled(1)
  \/ Rendered /\ settleRejected(1)
  \/ Rendered /\ nextRound(1)
  \/ Rendered /\ finishQueue(1)
  \/ render
  \/ \E id \in AllIds : handleMouseMove(id)

DragSpec == InitDrag /\ [][NextDrag]_vars

\* ------------------------------------------------------------- a stubbed provider
\* A deterministic generation capability: the call fails for a prompt that
\* holds the word bad and returns the one text of Responses for any other
StubFails(prompt) == \E k \in DOMAIN prompt : prompt[k] = "bad"

\* a node as an earlier session has left it
Persisted(node, status, content, errorMessage) ==
  [node EXCEPT !.status = status, !.content = content, !.errorMessage = errorMessage]

\* The nodes of the stub workspaces: two text sources, a generator, the sink;
\* each fresh, or left COMPLETED or in ERROR by an earlier session
StubVariants ==
  LET Fresh == {NewNode("INPUT", <<"topic">>, <<>>, <<>>),
                NewNode("INPUT", <<"bad">>, <<>>, <<>>),
                NewNode("AI_GENERATOR", <<>>, <<>>, <<>>),
                NewNode("OUTPUT_PREVIEW", <<>>, <<>>, <<>>)}
  IN Fresh
       \cup {Persisted(n, "COMPLETED", <<"old">>, Undefined) : n \in Fresh}
       \cup {Persisted(n, "ERROR", <<"old">>, "provider error") :
               n \in {f \in Fresh : f.type = "AI_GENERATOR"}}

InitStub ==
  /\ nodes \in [InitialIds -> StubVariants]
  /\ connections \in ConnectionLists(nodes)
  /\ isExecuting = FALSE
  /\ pc = [p \in Procs |-> "idle"]
  /\ currentNodes = [p \in Procs |-> NoNodes]
  /\ runConnections = [p \in Procs |-> <<>>]
  /\ nodesToRun = [p \in Procs |-> <<>>]
  /\ inflight = [p \in Procs |-> NoOp]
  /\ hasProcessed = [p \in Procs |-> FALSE]
  /\ runKind = [p \in Procs |-> NoRun]
  /\ userOps = 0
  /\ onlyFullRuns = TRUE
  /\ rounds = [p \in Procs |-> 0]
  /\ roundStart = [p \in Procs |-> NoNodes]
  /\ ran = [p \in Procs |-> {}]
  /\ dispatches = [i \in AllIds |-> 0]
  /\ snapshot = NoNodes
  /\ InitPage

\* an observer copies the node list of the workspace while no invocation is
\* pending
takeSnapshot ==
  /\ pc[1] = "done"
  /\ \A p \in Procs : Free(p)
  /\ snapshot # nodes
  /\ snapshot' = nodes
  /\ UNCHANGED retryRejected
  /\ UNCHANGED <<nodes, connections, isExecuting, pc, currentNodes, runConnections,
                 nodesToRun, inflight, hasProcessed, runKind, userOps, onlyFullRuns,
                 rounds, roundStart, ran, dispatches, now, runContext,
                 otherWorkspaces,
                 editorVars>>

\* Full runs one after the other, each to its end, with the stubbed provider
NextStub ==
  \/ executeWorkflow(1)
  \/ processWorkflowQueue(1)
  \/ settlePreview(1)
  \/ ~StubFails(inflight[1].prompt) /\ settleFulfilled(1)
  \/ StubFails(inflight[1].prompt) /\ settleRejected(1)
  \/ nextRound(1)
  \/ finishQueue(1)
  \/ takeSnapshot

StubSpec == InitStub /\ [][NextStub]_vars

\* ------------------------------------------------------------- editing
\* the state of the scheduler, which no gesture of the editor touches
runVars ==
  <<isExecuting, pc, currentNodes, runConnections, nodesToRun, inflight,
    hasProcessed, runKind, rounds, roundStart, ran, dispatches, runContext>>

\* handleNodeMouseDown with the left button: the node is selected
handleNodeMouseDown(id) ==
  /\ id \in DOMAIN nodes
  /\ selectedNodeId' = id
  /\ selectedConnectionId' = NoConnection
  /\ UNCHANGED retryRejected
  /\ UNCHANGED <<nodes, connections, userOps, onlyFullRuns, snapshot, now,
                 activeWorkspaceId, otherWorkspaces, globalContext, runVars>>

\* handleNodeContextMenu: the node is selected, a selected connection stays so
handleNodeContextMenu(id) ==
  /\ id \in DOMAIN nodes
  /\ selectedNodeId' = id
  /\ UNCHANGED retryRejected
  /\ UNCHANGED <<nodes, connections, userOps, onlyFullRuns, snapshot, now,
                 activeWorkspaceId, otherWorkspaces, globalContext,
                 selectedConnectionId, runVars>>

\* a click on a drawn connection: renderConnections draws a connection only
\* when both its nodes are in the node list
selectConnection(conn) ==
  /\ \E k \in DOMAIN connections : connections[k] = conn
  /\ conn.sourceId \in DOMAIN nodes
  /\ conn.targetId \in DOMAIN nodes
  /\ selectedConnectionId' = conn
  /\ selectedNodeId' = 0
  /\ UNCHANGED retryRejected
  /\ UNCHANGED <<nodes, connections, userOps, onlyFullRuns, snapshot, now,
                 activeWorkspaceId, otherWorkspaces, globalContext, runVars>>

\* nodes.filter(n => n.id !== id)
withoutNode(ns, id) == [i \in DOMAIN ns \ {id} |-> ns[i]]

\* connections.filter(c => c.sourceId !== id && c.targetId !== id)
withoutEdgesOf(conns, id) ==
  SelectSeq(conns, LAMBDA c : c.sourceId # id /\ c.targetId # id)

\* connections.filter(c => c.id !== id)
withoutConnection(conns, conn) == SelectSeq(conns, LAMBDA c : c # conn)

\* addNode: a new node of the kind, Idle and empty, at the end of the node list
addNode(type) ==
  /\ userOps < MaxUserOps
  /\ now \in AllIds
  /\ nodes' = [i \in DOMAIN nodes \cup {now} |->
                 IF i = now THEN NewNode(type, <<>>, <<>>, <<>>) ELSE nodes[i]]
  /\ now' = now + 1
  /\ selectedNodeId' = now
  /\ selectedConnectionId' = NoConnection
  /\ userOps' = userOps + 1
  /\ onlyFullRuns' = FALSE
  /\ UNCHANGED retryRejected
  /\ UNCHANGED <<connections, snapshot, activeWorkspaceId, otherWorkspaces,
                 globalContext, runVars>>

\* the fields the properties panel offers for a node of this kind
PanelEdits(node) ==
  IF node.type = "AI_CODER" THEN {[customTemplate |-> <<"edited">>]}
  ELSE IF node.type = "IMAGE_NODE" THEN {[imageUrls |-> <<"edited">>]}
  ELSE {}

\* updateNodeData from the properties panel, which shows the selected node
updateNodeData(id, updates) ==
  /\ userOps < MaxUserOps
  /\ id \in DOMAIN nodes
  /\ selectedNodeId = id
  /\ updates \in PanelEdits(nodes[id])
  /\ nodes' = MapUpdate(nodes, id, updates)
  /\ userOps' = userOps + 1
  /\ onlyFullRuns' = FALSE
  /\ UNCHANGED retryRejected
  /\ UNCHANGED <<connections, snapshot, now, otherWorkspaces, editorVars, runVars>>

\* deleteNode from the button of the node, its context menu or the panel
deleteNode(id) ==
  /\ userOps < MaxUserOps
  /\ id \in DOMAIN nodes
  /\ nodes' = withoutNode(nodes, id)
  /\ connections' = withoutEdgesOf(connections, id)
  /\ selectedNodeId' = 0
  /\ userOps' = userOps + 1
  /\ onlyFullRuns' = FALSE
  /\ UNCHANGED retryRejected
  /\ UNCHANGED <<snapshot, now, activeWorkspaceId, otherWorkspaces, globalContext,
                 selectedConnectionId, runVars>>

\* deleteConnection from the context menu of a drawn connection
deleteConnection(conn) ==
  /\ userOps < MaxUserOps
  /\ \E k \in DOMAIN connections : connections[k] = conn
  /\ conn.sourceId \in DOMAIN nodes
  /\ conn.targetId \in DOMAIN nodes
  /\ connections' = withoutConnection(connections, conn)
  /\ selectedConnectionId' = NoConnection
  /\ userOps' = userOps + 1
  /\ onlyFullRuns' = FALSE
  /\ UNCHANGED retryRejected
  /\ UNCHANGED <<nodes, snapshot, now, activeWorkspaceId, otherWorkspaces,
                 globalContext, selectedNodeId, runVars>>

\* handleKeyDown for Delete or Backspace: deleteNode of the selected node, then
\* deleteConnection of the selected connection. deleteNode filters the
\* workspace as it is, deleteConnection then puts the connections of the
\* render, without the selected one, in its place.
handleKeyDown ==
  /\ userOps < MaxUserOps
  /\ selectedNodeId # 0 \/ selectedConnectionId # NoConnection
  /\ nodes' = IF selectedNodeId # 0 THEN withoutNode(nodes, selectedNodeId)
              ELSE nodes
  /\ connections' =
       IF selectedConnectionId # NoConnection
       THEN withoutConnection(connections, selectedConnectionId)
       ELSE withoutEdgesOf(connections, selectedNodeId)
  /\ selectedNodeId' = 0
  /\ selectedConnectionId' = NoConnection
  /\ userOps' = userOps + 1
  /\ onlyFullRuns' = FALSE
  /\ UNCHANGED retryRejected
  /\ UNCHANGED <<snapshot, now, activeWorkspaceId, otherWorkspaces, globalContext,
                 runVars>>

\* The nodes the edited workspace starts with: an input node first, then nodes
\* that take input and can be connected to each other, also in a cycle
EditVariants ==
  {NewNode("INPUT", <<"topic">>, <<>>, <<>>),
   NewNode("AI_CODER", <<>>, <<>>, <<"tpl">>),
   NewNode("AI_GENERATOR", <<>>, <<>>, <<>>)}

InitEdit ==
  /\ nodes \in {ns \in [InitialIds -> EditVariants] :
                  \A i \in InitialIds : ns[i].type = "INPUT" <=> i = 1}
  /\ connections \in ConnectionLists(nodes)
  /\ isExecuting = FALSE
  /\ pc = [p \in Procs |-> "idle"]
  /\ currentNodes = [p \in Procs |-> NoNodes]
  /\ runConnections = [p \in Procs |-> <<>>]
  /\ nodesToRun = [p \in Procs |-> <<>>]
  /\ inflight = [p \in Procs |-> NoOp]
  /\ hasProcessed = [p \in Procs |-> FALSE]
  /\ runKind = [p \in Procs |-> NoRun]
  /\ userOps = 0
  /\ onlyFullRuns = TRUE
  /\ rounds = [p \in Procs |-> 0]
  /\ roundStart = [p \in Procs |-> NoNodes]
  /\ ran = [p \in Procs |-> {}]
  /\ dispatches = [i \in AllIds |-> 0]
  /\ snapshot = NoNodes
  /\ InitPage

\* One invocation at a time, and the gestures of the editor at any moment:
\* no control of the editor is disabled while a run is in flight.
NextEdit ==
  \/ executeWorkflow(1)
  \/ \E id \in AllIds : handleRetryNode(1, id)
  \/ processWorkflowQueue(1)
  \/ settleFulfilled(1)
  \/ settleRejected(1)
  \/ nextRound(1)
  \/ finishQueue(1)
  \/ \E id \in AllIds : handleNodeMouseDown(id)
  \/ \E id \in AllIds : handleNodeContextMenu(id)
  \/ \E a, b \in AllIds : selectConnection([sourceId |-> a, targetId |-> b])
  \/ \E type \in {"INPUT", "AI_GENERATOR"} : addNode(type)
  \/ \E id \in AllIds : duplicateNode(id)
  \/ \E id \in DOMAIN nodes : \E updates \in PanelEdits(nodes[id]) :
        updateNodeData(id, updates)
  \/ \E id \in AllIds : deleteNode(id)
  \/ \E a, b \in AllIds : deleteConnection([sourceId |-> a, targetId |-> b])
  \/ \E a, b \in AllIds : handleConnectEnd(a, b)
  \/ handleKeyDown

EditSpec == InitEdit /\ [][NextEdit]_vars

\* ------------------------------------------------------------- workspaces
\* a click on a workspace in the workspace menu
setActiveWorkspaceId(id) ==
  /\ id \in {Home} \cup DOMAIN otherWorkspaces
  /\ id # activeWorkspaceId
  /\ activeWorkspaceId' = id
  /\ UNCHANGED retryRejected
  /\ UNCHANGED <<nodes, connections, userOps, onlyFullRuns, snapshot, now,
                 otherWorkspaces, globalContext, selectedNodeId,
                 selectedConnectionId, runVars>>

\* createWorkspace: a workspace without nodes and with an empty global
\* context is added and made the active one
createWorkspace ==
  /\ userOps < MaxUserOps
  /\ LET id == Cardinality(DOMAIN otherWorkspaces) + 2
         newWs == [nodes |-> NoNodes, connections |-> <<>>, globalContext |-> ""]
     IN /\ otherWorkspaces' =
             [w \in DOMAIN otherWorkspaces \cup {id} |->
                IF w = id THEN newWs ELSE otherWorkspaces[w]]
        /\ activeWorkspaceId' = id
  /\ userOps' = userOps + 1
  /\ onlyFullRuns' = FALSE
  /\ UNCHANGED retryRejected
  /\ UNCHANGED <<nodes, connections, snapshot, now, globalContext, selectedNodeId,
                 selectedConnectionId, runVars>>

\* the Global Context field of the settings: updateActiveWorkspace with the text
updateGlobalContext(text) ==
  /\ userOps < MaxUserOps
  /\ globalContext' = IF activeWorkspaceId = Home THEN text ELSE globalContext
  /\ otherWorkspaces' =
       [w \in DOMAIN otherWorkspaces |->
          IF w = activeWorkspaceId
          THEN [otherWorkspaces[w] EXCEPT !.globalContext = text]
          ELSE otherWorkspaces[w]]
  /\ userOps' = userOps + 1
  /\ onlyFullRuns' = FALSE
  /\ UNCHANGED retryRejected
  /\ UNCHANGED <<nodes, connections, snapshot, now, activeWorkspaceId,
                 selectedNodeId, selectedConnectionId, runVars>>

\* A second workspace as the page loads it from localStorage: an input node
\* and a generator that no run has reached
SecondWorkspace ==
  [nodes |-> [i \in {11, 12} |->
                IF i = 11 THEN NewNode("INPUT", <<"topic">>, <<>>, <<>>)
                ELSE NewNode("AI_GENERATOR", <<>>, <<>>, <<>>)],
   connections |-> <<[sourceId |-> 11, targetId |-> 12]>>,
   globalContext |-> "second"]

InitWorkspaces ==
  /\ nodes \in [InitialIds -> NodeVariants]
  /\ connections \in ConnectionLists(nodes)
  /\ isExecuting = FALSE
  /\ pc = [p \in Procs |-> "idle"]
  /\ currentNodes = [p \in Procs |-> NoNodes]
  /\ runConnections = [p \in Procs |-> <<>>]
  /\ nodesToRun = [p \in Procs |-> <<>>]
  /\ inflight = [p \in Procs |-> NoOp]
  /\ hasProcessed = [p \in Procs |-> FALSE]
  /\ runKind = [p \in Procs |-> NoRun]
  /\ userOps = 0
  /\ onlyFullRuns = TRUE
  /\ rounds = [p \in Procs |-> 0]
  /\ roundStart = [p \in Procs |-> NoNodes]
  /\ ran = [p \in Procs |-> {}]
  /\ dispatches = [i \in AllIds |-> 0]
  /\ snapshot = NoNodes
  /\ activeWorkspaceId = Home
  /\ otherWorkspaces = [w \in {2} |-> SecondWorkspace]
  /\ globalContext = DefaultContext
  /\ runContext = [p \in Procs |-> Undefined]
  /\ selectedNodeId = 0
  /\ selectedConnectionId = NoConnection
  /\ now = NumNodes + 1
  /\ retryRejected = FALSE

\* One invocation at a time, started in the Home workspace; the workspace
\* menu and the settings stay usable while it is in flight.
NextWorkspaces ==
  \/ executeWorkflow(1)
  \/ processWorkflowQueue(1)
  \/ settlePreview(1)
  \/ settleFulfilled(1)
  \/ settleRejected(1)
  \/ nextRound(1)
  \/ finishQueue(1)
  \/ \E id \in 1..(MaxUserOps + 2) : setActiveWorkspaceId(id)
  \/ createWorkspace
  \/ updateGlobalContext("edited")
  \/ reloadPage

WorkspacesSpec == InitWorkspaces /\ [][NextWorkspaces]_vars

\* ------------------------------------------------------------- properties
\* the pairs (a, b) with a path of one or more connections from a to b
RECURSIVE Close(_, _, _)
Close(E, P, n) ==
  IF n = 0 THEN P
  ELSE Close(E,
         P \cup {<<z[1][1], z[2][2]>> : z \in {w \in P \X E : w[1][2] = w[2][1]}},
         n - 1)

EdgePairs(conns) == {<<conns[k].sourceId, conns[k].targetId>> : k \in DOMAIN conns}

Paths(conns) == Close(EdgePairs(conns), EdgePairs(conns), Len(conns))

Reachable(conns, a) == {b \in AllIds : <<a, b>> \in Paths(conns)}

IsDAG(conns) == \A a \in AllIds : <<a, a>> \notin Paths(conns)

InputRequiring(type) ==
  type \in {"AI_GENERATOR", "AI_OPTIMIZER", "AI_FACT_CHECK", "AI_CODER", "OUTPUT_PREVIEW"}

Sources(conns, id) == {conns[k].sourceId : k \in {j \in DOMAIN conns : conns[j].targetId = id}}

\* the eligible set of a round as the design states it
Eligible(cur, conns) ==
  {i \in DOMAIN cur :
     /\ cur[i].status = "IDLE"
     /\ \/ cur[i].type = "AI_BRAINSTORM"
        \/ /\ Sources(conns, i) # {}
           /\ \A s \in Sources(conns, i) : s \in DOMAIN cur /\ cur[s].status = "COMPLETED"}

Running(p) == pc[p] \in {"await", "sleep"}

NotIdle(cur) == {i \in DOMAIN cur : cur[i].status # "IDLE"}

\* C1: on a DAG an invocation of processWorkflowQueue has had at most |Nodes|
\* rounds that dispatched a node (each such round takes at least one node out
\* of IDLE for good), it can always take its next step, and when it leaves the
\* loop no node of its working copy is eligible.
C1_TerminationBound ==
  \A p \in Procs :
    (Running(p) /\ IsDAG(runConnections[p])) =>
       /\ rounds[p] <= Cardinality(NotIdle(currentNodes[p]))
       /\ rounds[p] <= Cardinality(DOMAIN currentNodes[p])
       /\ pc[p] = "await" => /\ Len(nodesToRun[p]) > 0
                             /\ inflight[p].id = Head(nodesToRun[p])
                             /\ inflight[p].op \in {"preview", "generateText"}
       /\ (pc[p] = "sleep" /\ ~hasProcessed[p]) =>
             Eligible(currentNodes[p], runConnections[p]) = {}

\* a run over a chain that needed as many rounds as there are nodes is about
\* to leave the loop
C1_Witness ==
  \E p \in Procs :
    /\ pc[p] = "sleep" /\ ~hasProcessed[p]
    /\ IsDAG(runConnections[p])
    /\ rounds[p] = Cardinality(DOMAIN currentNodes[p])
    /\ rounds[p] >= 3

\* C2: the nodes a round sets Running are exactly the nodes that were IDLE when
\* the round was computed and were of kind Brainstorm or had an incoming
\* connection with every source COMPLETED; a node of an input-requiring kind
\* without incoming connection is never dispatched and stays IDLE.
C2_DispatchedIsEligible ==
  /\ \A p \in Procs :
       Running(p) =>
         /\ ran[p] \subseteq Eligible(roundStart[p], runConnections[p])
         /\ ran[p] \cup {nodesToRun[p][k] : k \in DOMAIN nodesToRun[p]}
              = Eligible(roundStart[p], runConnections[p])
         /\ pc[p] = "sleep" => ran[p] = Eligible(roundStart[p], runConnections[p])
  /\ \A i \in DOMAIN nodes :
       (InputRequiring(nodes[i].type) /\ Sources(connections, i) = {}) =>
          /\ nodes[i].status = "IDLE"
          /\ dispatches[i] = 0
          /\ \A p \in Procs : i \notin ran[p]

\* a round that dispatched two nodes has ended while a node without input
\* stayed behind
C2_Witness ==
  \E p \in Procs :
    /\ pc[p] = "sleep"
    /\ Cardinality(ran[p]) >= 2
    /\ \E i \in DOMAIN nodes :
         InputRequiring(nodes[i].type) /\ Sources(connections, i) = {}

AllFree == \A p \in Procs : Free(p)

\* C3: when only full runs have been made and none is pending, every node
\* reachable from a node in ERROR is IDLE and was not dispatched since its reset
C3_BlockedByError ==
  (onlyFullRuns /\ userOps > 0 /\ AllFree) =>
     \A a \in DOMAIN nodes :
        nodes[a].status = "ERROR" =>
           \A b \in Reachable(connections, a) \cap DOMAIN nodes :
              nodes[b].status = "IDLE" /\ dispatches[b] = 0

\* C4: a handleRetryNode(T) that passes the guard sets the nodes of T and its
\* descendants IDLE and leaves status, content and errorMessage of every other
\* node as they were
C4_RetryFrame ==
  [][\A p \in Procs :
       (Free(p) /\ pc'[p] = "delay" /\ runKind'[p].op = "retry") =>
          /\ DOMAIN nodes' = DOMAIN nodes
          /\ \A i \in DOMAIN nodes :
               IF i \in {runKind'[p].nodeId} \cup Reachable(connections, runKind'[p].nodeId)
               THEN nodes'[i].status = "IDLE"
               ELSE /\ nodes'[i].status = nodes[i].status
                    /\ nodes'[i].content = nodes[i].content
                    /\ nodes'[i].errorMessage = nodes[i].errorMessage]_vars

\* a retry of the middle of a chain has just reset two nodes, and an ancestor
\* of the target is still COMPLETED with its content
C4_Witness ==
  \E p \in Procs :
    /\ pc[p] = "delay" /\ runKind[p].op = "retry"
    /\ Cardinality(Reachable(connections, runKind[p].nodeId)) >= 1
    /\ \A i \in {runKind[p].nodeId} \cup Reachable(connections, runKind[p].nodeId) :
         nodes[i].status = "IDLE" /\ nodes[i].content # <<>>
    /\ \E a \in DOMAIN nodes :
         /\ runKind[p].nodeId \in Reachable(connections, a)
         /\ a \notin Reachable(connections, runKind[p].nodeId)
         /\ nodes[a].status = "COMPLETED"
         /\ nodes[a].content # <<>>

\* the nodes the handler that started this invocation has reset
ResetSet(p) ==
  IF runKind[p].op = "run" THEN DOMAIN currentNodes[p]
  ELSE ({runKind[p].nodeId} \cup Reachable(runConnections[p], runKind[p].nodeId))
         \cap DOMAIN currentNodes[p]

\* C5: right after the reset of executeWorkflow or handleRetryNode every reset
\* node is IDLE with empty content and no errorMessage
C5_ResetClears ==
  \A p \in Procs :
    pc[p] = "delay" =>
      \A i \in ResetSet(p) :
         /\ currentNodes[p][i].status = "IDLE"
         /\ currentNodes[p][i].content = <<>>
         /\ currentNodes[p][i].errorMessage = Undefined

\* C6: only a COMPLETED node has content
C6_ContentOnlyIfCompleted ==
  \A i \in DOMAIN nodes : nodes[i].content # <<>> => nodes[i].status = "COMPLETED"

\* C7: only a node in ERROR has an errorMessage
C7_ErrorMessageOnlyIfError ==
  \A i \in DOMAIN nodes :
     nodes[i].errorMessage # Undefined => nodes[i].status = "ERROR"

\* C8: a step of a scheduler changes the status of a node only from IDLE to
\* RUNNING, from RUNNING to COMPLETED or ERROR, or (a source in Step 1) from
\* IDLE to COMPLETED; COMPLETED and ERROR are left only by a user's reset
C8_StatusTransitions ==
  [][userOps' = userOps =>
       \A i \in DOMAIN nodes :
          \/ nodes'[i].status = nodes[i].status
          \/ <<nodes[i].status, nodes'[i].status>> \in
               {<<"IDLE", "RUNNING">>, <<"RUNNING", "COMPLETED">>, <<"RUNNING", "ERROR">>}
          \/ /\ nodes[i].type \in {"INPUT", "IMAGE_NODE"}
             /\ nodes[i].status = "IDLE" /\ nodes'[i].status = "COMPLETED"]_vars

\* C9: at most one invocation of processWorkflowQueue is in flight
C9_SingleInvocation == Cardinality({p \in Procs : Running(p)}) <= 1

\* C10: a node is dispatched at most once after its last reset, and at most
\* one operation is awaited for it
C10_SingleDispatch ==
  \A i \in AllIds :
     /\ dispatches[i] <= 1
     /\ Cardinality({p \in Procs : pc[p] = "await" /\ inflight[p].id = i}) <= 1

\* C11: the nodes of a round are fixed when the round is computed. While the
\* round lasts the scheduler only walks down that list (a settled node is
\* followed by the next node of the list, which was eligible when the round
\* was computed), and a new round is computed only during the pause, when every
\* node the round dispatched has settled.
C11_RoundSynchronous ==
  [][\A p \in Procs :
       /\ (pc[p] = "await" /\ pc'[p] \in {"await", "sleep"}
             /\ inflight'[p] # inflight[p]) =>
            /\ roundStart'[p] = roundStart[p]
            /\ nodesToRun'[p] = Tail(nodesToRun[p])
            /\ pc'[p] = "await" =>
                 /\ inflight'[p].id = Head(nodesToRun'[p])
                 /\ inflight'[p].id \in Eligible(roundStart[p], runConnections[p])
       /\ (Running(p) /\ pc'[p] \in {"await", "sleep"}
             /\ roundStart'[p] # roundStart[p]) =>
            /\ pc[p] = "sleep"
            /\ \A i \in ran[p] :
                 currentNodes[p][i].status \in {"COMPLETED", "ERROR"}]_vars

\* while a node of the round is awaited, a node that became eligible because
\* another node of the round completed is still IDLE and not in the round
C11_Witness ==
  \E p \in Procs :
    /\ pc[p] = "await"
    /\ \E j \in Eligible(currentNodes[p], runConnections[p]) :
         /\ j \notin Eligible(roundStart[p], runConnections[p])
         /\ j \notin ran[p]
         /\ \A k \in DOMAIN nodesToRun[p] : nodesToRun[p][k] # j
         /\ \E s \in ran[p] \cap Sources(runConnections[p], j) :
              currentNodes[p][s].status = "COMPLETED"

\* C12: when the scheduler waits for a node of a round, every node that was
\* eligible when the round was computed has been set RUNNING already
C12_AllDispatchedBeforeWait ==
  \A p \in Procs :
    pc[p] = "await" =>
      \A i \in Eligible(roundStart[p], runConnections[p]) :
         currentNodes[p][i].status # "IDLE"

\* the image references of a Source-Image node, one per line
RefsByLine(urls) ==
  [k \in 1..(IF Len(urls) = 0 THEN 0 ELSE 2 * Len(urls) - 1) |->
     IF k % 2 = 1 THEN urls[(k + 1) \div 2] ELSE "\n"]

\* the content the design gives a resolved source
SourceContent(node) ==
  IF node.type = "INPUT" THEN node.userPrompt ELSE RefsByLine(node.imageUrls)

\* C13: the first step of an invocation sets every IDLE Source-Text and
\* Source-Image node of its working copy COMPLETED, with its prompt text resp.
\* its image references one per line as content, in the working copy and in the
\* workspace, and it does so before it computes the first round: in the copy
\* the first round is computed from, they are COMPLETED and no node has been
\* set RUNNING.
C13_SourcesResolvedFirst ==
  [][\A p \in Procs :
       (pc[p] = "delay" /\ pc'[p] \in {"await", "sleep"}) =>
          /\ \A i \in DOMAIN currentNodes[p] :
               (/\ currentNodes[p][i].type \in {"INPUT", "IMAGE_NODE"}
                /\ currentNodes[p][i].status = "IDLE") =>
                  /\ roundStart'[p][i].status = "COMPLETED"
                  /\ roundStart'[p][i].content = SourceContent(currentNodes[p][i])
                  /\ currentNodes'[p][i].status = "COMPLETED"
                  /\ currentNodes'[p][i].content = SourceContent(currentNodes[p][i])
                  /\ i \in DOMAIN nodes' =>
                       /\ nodes'[i].status = "COMPLETED"
                       /\ nodes'[i].content = SourceContent(currentNodes[p][i])
          /\ \A j \in DOMAIN roundStart'[p] :
               roundStart'[p][j].status = "RUNNING" =>
                  currentNodes[p][j].status = "RUNNING"]_vars

\* an invocation has started on a workspace with an image source that feeds a
\* node and a text source without prompt and without connection: both are
\* COMPLETED
C13_Witness ==
  /\ pc[1] \in {"await", "sleep"}
  /\ rounds[1] <= 1
  /\ \E i, j \in DOMAIN currentNodes[1] :
       /\ currentNodes[1][i].type = "IMAGE_NODE"
       /\ currentNodes[1][i].status = "COMPLETED"
       /\ currentNodes[1][i].content = <<"u1", "\n", "u2">>
       /\ \E k \in DOMAIN runConnections[1] : runConnections[1][k].sourceId = i
       /\ currentNodes[1][j].type = "INPUT"
       /\ currentNodes[1][j].userPrompt = <<>>
       /\ currentNodes[1][j].status = "COMPLETED"
       /\ currentNodes[1][j].content = <<>>
       /\ \A k \in DOMAIN runConnections[1] :
            runConnections[1][k].sourceId # j /\ runConnections[1][k].targetId # j

\* C14: when the awaited generation call of a node fails, the invocation goes
\* on: the node alone is marked, the next node of the round's list (if any) is
\* set RUNNING and awaited, no other node of the working copy changes, and the
\* loop flag stays set, so that another round is computed after the pause.
C14_FailureDoesNotAbort ==
  [][\A p \in Procs :
       (/\ pc[p] = "await"
        /\ pc'[p] \in {"await", "sleep"}
        /\ currentNodes'[p][inflight[p].id].status = "ERROR") =>
          LET rest == Tail(nodesToRun[p])
          IN /\ nodesToRun'[p] = rest
             /\ hasProcessed'[p]
             /\ IF Len(rest) = 0 THEN pc'[p] = "sleep"
                ELSE /\ pc'[p] = "await"
                     /\ inflight'[p].id = Head(rest)
                     /\ currentNodes'[p][Head(rest)].status = "RUNNING"
             /\ \A j \in DOMAIN currentNodes[p] :
                  (j # inflight[p].id /\ (Len(rest) = 0 \/ j # Head(rest))) =>
                     currentNodes'[p][j] = currentNodes[p][j]]_vars

\* a full run in which the first node of round 1 failed and the second
\* completed has reached a later round and awaits a node there
C14_Witness ==
  \E p \in Procs :
    /\ pc[p] = "await"
    /\ runKind[p].op = "run"
    /\ rounds[p] >= 2
    /\ \E i, j \in DOMAIN currentNodes[p] :
         /\ i < j
         /\ currentNodes[p][i].type = "AI_BRAINSTORM"
         /\ currentNodes[p][j].type = "AI_BRAINSTORM"
         /\ currentNodes[p][i].status = "ERROR"
         /\ currentNodes[p][j].status = "COMPLETED"
         /\ j \in Sources(runConnections[p], inflight[p].id)

\* the texts a generation call can hand back for a prompt
ReturnedTexts(prompt) == Responses(prompt) \cup {<<>>}

\* C15: when the awaited generation call of a node settles, the node is either
\* COMPLETED with the returned text as content, or ERROR with a non-empty
\* errorMessage (the thrown message or the fallback text) and the content it
\* had when the round was computed; the workspace gets the same status,
\* errorMessage and, on success, content, and on failure keeps its content.
C15_ResultHandling ==
  [][\A p \in Procs :
       (/\ pc[p] = "await"
        /\ inflight[p].op = "generateText"
        /\ pc'[p] \in {"await", "sleep"}
        /\ inflight'[p] # inflight[p]) =>
          LET i == inflight[p].id
              after == currentNodes'[p][i]
          IN \/ /\ after.status = "COMPLETED"
                /\ after.content \in ReturnedTexts(inflight[p].prompt)
                /\ after.errorMessage = Undefined
                /\ nodes'[i].status = "COMPLETED"
                /\ nodes'[i].content = after.content
             \/ /\ after.status = "ERROR"
                /\ after.errorMessage \in (ThrownMessages \cup {"Unknown error"})
                /\ after.errorMessage \notin {Undefined, ""}
                /\ after.content = currentNodes[p][i].content
                /\ after.content = roundStart[p][i].content
                /\ nodes'[i].status = "ERROR"
                /\ nodes'[i].errorMessage = after.errorMessage
                /\ nodes'[i].content = nodes[i].content]_vars

\* in a second run a node whose call failed without a message is in ERROR with
\* the fallback text and still has the content of the first run, while another
\* node is COMPLETED with the text its call returned
C15_Witness ==
  /\ Running(1)
  /\ \E i, j \in DOMAIN currentNodes[1] :
       /\ currentNodes[1][i].status = "ERROR"
       /\ currentNodes[1][i].errorMessage = "Unknown error"
       /\ currentNodes[1][i].content # <<>>
       /\ currentNodes[1][j].type = "AI_BRAINSTORM"
       /\ currentNodes[1][j].status = "COMPLETED"
       /\ currentNodes[1][j].content \in Responses(
            <<"Generate a list of relevant topics based on the global context provided.">>)

\* C16: a node gets status ERROR only in the step in which its own awaited
\* generation call fails (never a node that was not dispatched, never a
\* Preview, never a copied node), and the step that ends an invocation changes
\* no node, so a node that is IDLE then stays IDLE.
C16_ErrorOnlyOwnFailure ==
  [][/\ \A i \in DOMAIN nodes' :
          (nodes'[i].status = "ERROR" /\ (i \notin DOMAIN nodes \/ nodes[i].status # "ERROR")) =>
             \E p \in Procs :
                /\ pc[p] = "await"
                /\ inflight[p].id = i
                /\ inflight[p].op = "generateText"
                /\ currentNodes[p][i].status = "RUNNING"
                /\ currentNodes'[p][i].status = "ERROR"
     /\ \A p \in Procs :
          (Running(p) /\ pc'[p] \in {"await", "sleep"}) =>
             \A i \in DOMAIN currentNodes[p] :
                (currentNodes'[p][i].status = "ERROR"
                   /\ currentNodes[p][i].status # "ERROR") =>
                     /\ pc[p] = "await"
                     /\ inflight[p].id = i
                     /\ inflight[p].op = "generateText"
     /\ \A p \in Procs :
          (pc[p] = "sleep" /\ pc'[p] = "done") => nodes' = nodes]_vars

\* every invocation has ended; a node is in ERROR and a node downstream of it
\* is IDLE and was never dispatched
C16_Witness ==
  /\ AllFree
  /\ \E p \in Procs : pc[p] = "done"
  /\ \E a, b \in DOMAIN nodes :
       /\ nodes[a].status = "ERROR"
       /\ b \in Reachable(connections, a)
       /\ nodes[b].status = "IDLE"
       /\ dispatches[b] = 0

\* the parts separated by a blank line
RECURSIVE BlankLineJoin(_)
BlankLineJoin(parts) ==
  IF Len(parts) = 0 THEN <<>>
  ELSE IF Len(parts) = 1 THEN parts[1]
  ELSE BlankLineJoin(SubSeq(parts, 1, Len(parts) - 1)) \o <<"\n\n">> \o parts[Len(parts)]

\* the connections into a node from text-producing nodes, as the connection
\* list has them
TextEdges(cur, conns, id) ==
  SelectSeq(conns, LAMBDA c : /\ c.targetId = id
                              /\ c.sourceId \in DOMAIN cur
                              /\ cur[c.sourceId].type # "IMAGE_NODE")

\* the text payload of a node: the contents of its text-producing upstream
\* nodes in the order of the connection list
TextPayload(cur, conns, id) ==
  BlankLineJoin([k \in 1..Len(TextEdges(cur, conns, id)) |->
                   cur[TextEdges(cur, conns, id)[k].sourceId].content])

IsInfix(s, t) ==
  \E k \in 0..(Len(t) - Len(s)) : SubSeq(t, k + 1, k + Len(s)) = s

\* C17: the text handed to the operation of a dispatched node is the contents
\* of its text-producing upstream nodes in the order of the connection list:
\* it is the whole text of a Preview and a contiguous part of the prompt of any
\* other node with an input handle.
C17_PayloadInEdgeOrder ==
  \A p \in Procs :
    pc[p] = "await" =>
      LET i == inflight[p].id
          payload == TextPayload(currentNodes[p], runConnections[p], i)
      IN /\ inflight[p].op = "preview" => inflight[p].prompt = payload
         /\ ~isSourceNode(currentNodes[p][i].type) => IsInfix(payload, inflight[p].prompt)

\* node 3 is awaited; its connection from node 2 was added before the one from
\* node 1, node 1 (a text source) completed before node 2 (a generator), and
\* the text of node 2 precedes the text of node 1 in the prompt
C17_Witness ==
  /\ pc[1] = "await"
  /\ inflight[1].id = 3
  /\ runConnections[1] = <<[sourceId |-> 2, targetId |-> 3], [sourceId |-> 1, targetId |-> 3]>>
  /\ currentNodes[1][1].type = "INPUT"
  /\ currentNodes[1][1].content = <<"topic">>
  /\ currentNodes[1][2].type = "AI_BRAINSTORM"
  /\ currentNodes[1][2].content # <<>>
  /\ IsInfix(currentNodes[1][2].content \o <<"\n\n">> \o currentNodes[1][1].content,
             inflight[1].prompt)

\* the contents of all upstream nodes of a node, of every kind, in the order of
\* the connection list and separated by a blank line
AllUpstreamContent(cur, conns, id) ==
  LET into == SelectSeq(conns, LAMBDA c : c.targetId = id /\ c.sourceId \in DOMAIN cur)
  IN BlankLineJoin([k \in 1..Len(into) |-> cur[into[k].sourceId].content])

\* C18: a Preview that the current round has completed holds the contents of
\* all its upstream nodes, image sources included, separated by a blank line
C18_PreviewConcatenatesAll ==
  \A p \in Procs :
    Running(p) =>
      \A i \in ran[p] :
         (/\ currentNodes[p][i].type = "OUTPUT_PREVIEW"
          /\ currentNodes[p][i].status = "COMPLETED") =>
            currentNodes[p][i].content =
              AllUpstreamContent(currentNodes[p], runConnections[p], i)

\* C19: when a full run ends and the node list was copied at the end of the
\* full run before it, every node has the status and the content of the copy
C19_IdempotentFullRun ==
  [][(pc[1] = "sleep" /\ pc'[1] = "done" /\ onlyFullRuns /\ snapshot # NoNodes) =>
        /\ DOMAIN nodes' = DOMAIN snapshot
        /\ \A i \in DOMAIN nodes' :
             /\ nodes'[i].status = snapshot[i].status
             /\ nodes'[i].content = snapshot[i].content]_vars

\* the second full run has ended as the first did: a generator in ERROR that
\* still holds the content of an earlier session, and a Preview COMPLETED with
\* the text of its source
C19_Witness ==
  /\ pc[1] = "done"
  /\ userOps = 2
  /\ snapshot # NoNodes
  /\ \A i \in DOMAIN nodes :
       nodes[i].status = snapshot[i].status /\ nodes[i].content = snapshot[i].content
  /\ \E i, j \in DOMAIN nodes :
       /\ nodes[i].status = "ERROR"
       /\ nodes[i].content = <<"old">>
       /\ nodes[j].type = "OUTPUT_PREVIEW"
       /\ nodes[j].status = "COMPLETED"
       /\ nodes[j].content = <<"bad">>

\* the workspace and a working copy agree on the nodes that both hold
Agree(ws, cur) ==
  \A i \in DOMAIN ws \cap DOMAIN cur :
     /\ ws[i].status = cur[i].status
     /\ ws[i].content = cur[i].content
     /\ ws[i].errorMessage = cur[i].errorMessage

\* C20: after every update a scheduler issues, and when it ends, the node list
\* of the workspace agrees with the working copy of the scheduler on status,
\* content and errorMessage
C20_PublishedAgreesWithLocal ==
  [][\A p \in Procs :
       /\ (pc'[p] \in {"await", "sleep"} /\ currentNodes'[p] # currentNodes[p]) =>
             Agree(nodes', currentNodes'[p])
       /\ (pc[p] = "sleep" /\ pc'[p] = "done") => Agree(nodes', currentNodes[p])]_vars

\* C21: while a run is in flight, a step changes neither the kind, the template
\* nor the image refs of a node, nor the edge set; the status, the content and
\* the error message of a node change in steps of the scheduler only.
C21_FrameDuringRun ==
  [][(\E p \in Procs : ~Free(p) /\ ~Free(p)') =>
        /\ connections' = connections
        /\ \A i \in DOMAIN nodes \cap DOMAIN nodes' :
             /\ nodes'[i].type = nodes[i].type
             /\ nodes'[i].customTemplate = nodes[i].customTemplate
             /\ nodes'[i].imageUrls = nodes[i].imageUrls
             /\ (\/ nodes'[i].status # nodes[i].status
                 \/ nodes'[i].content # nodes[i].content
                 \/ nodes'[i].errorMessage # nodes[i].errorMessage)
                => (pc' # pc \/ nodesToRun' # nodesToRun)]_vars

\* C28: every connection of the workspace starts and ends at a node of the
\* workspace, whatever nodes and connections were added, duplicated and deleted.
C28_NoDanglingEdges ==
  \A k \in DOMAIN connections :
     /\ connections[k].sourceId \in DOMAIN nodes
     /\ connections[k].targetId \in DOMAIN nodes

\* C25: getDescendantNodeIds(n) is exactly the set of the ids that a path of
\* one or more connections leads to from n, so that n is in it only when n
\* lies on a cycle; the traversal ends on every connection list, cyclic or not.
C25_DescendantsAreReachable ==
  \A n \in AllIds :
     /\ getDescendantNodeIds(connections, n) = Reachable(connections, n)
     /\ n \in getDescendantNodeIds(connections, n) <=> <<n, n>> \in Paths(connections)

\* a retry of a node on a cycle, in a workspace where another node is not
C25_Witness ==
  \E p \in Procs :
     /\ runKind[p].op = "retry"
     /\ runConnections[p] = connections
     /\ runKind[p].nodeId \in getDescendantNodeIds(connections, runKind[p].nodeId)
     /\ \E m \in DOMAIN nodes : m \notin getDescendantNodeIds(connections, m)

\* C22: every generateText call of a run carries the global context that the
\* workspace of the run had when the run was started, so all calls of one run
\* carry the same value, whatever is edited or switched to meanwhile.
C22_CallsCarryRunContext ==
  [][\A p \in Procs :
       /\ (Free(p) /\ ~Free(p)') =>
            /\ activeWorkspaceId = Home
            /\ runContext'[p] = globalContext
       /\ (~Free(p) /\ ~Free(p)') => runContext'[p] = runContext[p]
       /\ (pc'[p] = "await" /\ inflight'[p].op = "generateText") =>
            inflight'[p].globalContext = runContext'[p]]_vars

\* a call of the second round is awaited after the global context of the
\* workspace was edited and another workspace made the active one
C22_Witness ==
  \E p \in Procs :
     /\ pc[p] = "await"
     /\ inflight[p].op = "generateText"
     /\ rounds[p] = 2
     /\ inflight[p].globalContext = DefaultContext
     /\ globalContext = "edited"
     /\ activeWorkspaceId # Home
     /\ otherWorkspaces[activeWorkspaceId].globalContext # inflight[p].globalContext

\* C26: no step of a run changes a node of a workspace other than the one the
\* run was started in, also after another workspace was created or made the
\* active one.
C26_OtherWorkspacesUntouched ==
  [][(pc' # pc \/ nodesToRun' # nodesToRun \/ currentNodes' # currentNodes) =>
       \A w \in DOMAIN otherWorkspaces :
          /\ w \in DOMAIN otherWorkspaces'
          /\ otherWorkspaces'[w].nodes = otherWorkspaces[w].nodes]_vars

\* a node of the Home workspace set Running in the second round of a run
\* while a workspace created during the run is the active one
C26_Witness ==
  \E p \in Procs :
     /\ pc[p] = "await"
     /\ rounds[p] = 2
     /\ nodes[inflight[p].id].status = "RUNNING"
     /\ activeWorkspaceId = 3
     /\ otherWorkspaces[2].nodes = SecondWorkspace.nodes

\* the request of a Brainstorm node
FixedTopicPrompt ==
  <<"Generate a list of relevant topics based on the global context provided.">>

\* connection lists that end at node i, from any other nodes of the working copy
EdgesInto(cur, i) ==
  LET In == {[sourceId |-> s, targetId |-> i] : s \in DOMAIN cur \ {i}}
  IN {<<>>} \cup {<<c>> : c \in In} \cup {<<c, d>> : c, d \in In}

\* C23: a Brainstorm node that is Idle when the first round of a run is
\* computed is dispatched in that round, whatever connections end at it and
\* whatever the status of their sources, and its request is the fixed topic
\* prompt without any upstream content.
C23_BrainstormFirstRound ==
  \A p \in Procs :
     (Running(p) /\ rounds[p] <= 1) =>
        \A i \in DOMAIN roundStart[p] :
           (roundStart[p][i].type = "AI_BRAINSTORM" /\ roundStart[p][i].status = "IDLE") =>
              /\ i \in ran[p] \cup {nodesToRun[p][k] : k \in DOMAIN nodesToRun[p]}
              /\ \A conns \in EdgesInto(roundStart[p], i) :
                   /\ isRunnable(roundStart[p], conns, i)
                   /\ awaitedOp(roundStart[p], conns, i, runContext[p]).op = "generateText"
                   /\ awaitedOp(roundStart[p], conns, i, runContext[p]).prompt
                        = FixedTopicPrompt
              /\ (pc[p] = "await" /\ inflight[p].id = i) =>
                   /\ inflight[p].op = "generateText"
                   /\ inflight[p].prompt = FixedTopicPrompt

\* the call of a Brainstorm node is awaited in the first round, next to an
\* input node that completed with text and a node that did not complete
C23_Witness ==
  \E p \in Procs :
     /\ pc[p] = "await"
     /\ rounds[p] = 1
     /\ currentNodes[p][inflight[p].id].type = "AI_BRAINSTORM"
     /\ \E s \in DOMAIN currentNodes[p] :
          currentNodes[p][s].status = "COMPLETED" /\ currentNodes[p][s].content # <<>>
     /\ \E s \in DOMAIN currentNodes[p] :
          s # inflight[p].id /\ currentNodes[p][s].status # "COMPLETED"

\* the nodes on a cycle of connections
OnCycle(conns) == {i \in AllIds : <<i, i>> \in Paths(conns)}

\* C24: once a full run was started, a node on a cycle of connections is Idle,
\* was never set Running since the reset of the run, and has neither completed
\* nor failed: the nodes of a cycle never become eligible.
C24_CycleStaysIdle ==
  pc[1] # "idle" =>
     \A i \in OnCycle(connections) \cap DOMAIN nodes :
        /\ InputRequiring(nodes[i].type)
        /\ nodes[i].status = "IDLE"
        /\ dispatches[i] = 0
        /\ i \notin ran[1]
        /\ \A k \in DOMAIN nodesToRun[1] : nodesToRun[1][k] # i

\* a full run has ended in a workspace with a cycle: a node off the cycle is
\* Completed
C24_Witness ==
  /\ pc[1] = "done"
  /\ OnCycle(connections) # {}
  /\ \E j \in DOMAIN nodes : nodes[j].status = "COMPLETED"

\* the image refs of the upstream image nodes of a node, in the order of the
\* connection list
RECURSIVE ImageRefs(_, _, _)
ImageRefs(cur, conns, id) ==
  IF Len(conns) = 0 THEN <<>>
  ELSE LET c == conns[1]
           rest == ImageRefs(cur, Tail(conns), id)
       IN IF /\ c.targetId = id
             /\ c.sourceId \in DOMAIN cur
             /\ cur[c.sourceId].type = "IMAGE_NODE"
          THEN cur[c.sourceId].imageUrls \o rest
          ELSE rest

\* the request of a Generator: the upstream text, then the image-ref annotation
GeneratorRequest(cur, conns, id) ==
  TextPayload(cur, conns, id) \o
    (IF Len(ImageRefs(cur, conns, id)) > 0
     THEN <<"\n\nAvailable Image URLs: ">> \o Join([k \in 1..Len(ImageRefs(cur, conns, id)) |-> <<ImageRefs(cur, conns, id)[k]>>], ", ")
     ELSE <<>>)

\* C27: the request of a Coder node holds the upstream text, the template
\* verbatim, the graft instruction and the collected image refs exactly when
\* its template is not empty; without a template it is the request of a
\* Generator for the same inputs with an instruction to produce HTML added.
C27_CoderRequest ==
  \A p \in Procs :
    (pc[p] = "await" /\ currentNodes[p][inflight[p].id].type = "AI_CODER") =>
      LET i == inflight[p].id
          template == currentNodes[p][i].customTemplate
          prompt == inflight[p].prompt
          plain == GeneratorRequest(currentNodes[p], runConnections[p], i)
          refs == ImageRefs(currentNodes[p], runConnections[p], i)
      IN /\ template # <<>> =>
              /\ IsInfix(<<"CONTENT TO INSERT:">>
                           \o TextPayload(currentNodes[p], runConnections[p], i)
                           \o <<"HTML TEMPLATE:">> \o template \o <<"INSTRUCTIONS:">>,
                         prompt)
              /\ \A k \in DOMAIN refs : \E j \in DOMAIN prompt : prompt[j] = refs[k]
         /\ template = <<>> =>
              /\ \A j \in DOMAIN prompt : prompt[j] # "HTML TEMPLATE:"
              /\ IsInfix(plain, prompt)
              /\ Len(prompt) > Len(plain)

\* C29: when a full run on a workspace without cycles, in which every node
\* that needs input has an incoming connection, has ended and no generation
\* call of it failed, every node is Completed: none is Idle, Running or Error.
C29_AllCompleted ==
  (/\ pc[1] = "done"
   /\ IsDAG(connections)
   /\ \A i \in DOMAIN nodes :
        /\ InputRequiring(nodes[i].type) => Sources(connections, i) # {}
        /\ nodes[i].status # "ERROR")
    => \A i \in DOMAIN nodes : nodes[i].status = "COMPLETED"

\* a full run has ended with every node Completed on a chain of two
\* connections, so that the last node ran in a third round
C29_Witness ==
  /\ pc[1] = "done"
  /\ IsDAG(connections)
  /\ \A i \in DOMAIN nodes : nodes[i].status = "COMPLETED"
  /\ \E j, k \in DOMAIN connections : connections[j].targetId = connections[k].sourceId
  /\ \E i \in DOMAIN nodes : nodes[i].type = "AI_GENERATOR" /\ dispatches[i] = 1

\* C30: in the run that follows a retry of node T, a node outside T and its
\* descendants is treated like any other: a source node outside the reset set
\* is Completed by the first step, and an Idle node outside it that is
\* eligible when a round is computed (a Brainstorm node, or a node whose
\* upstream nodes are all Completed) is dispatched in that round.
C30_RetryConsidersAllIdle ==
  \A p \in Procs :
    (Running(p) /\ runKind[p].op = "retry") =>
      \A i \in DOMAIN roundStart[p] \ ResetSet(p) :
         /\ roundStart[p][i].type \in {"INPUT", "IMAGE_NODE"} =>
              roundStart[p][i].status = "COMPLETED"
         /\ i \in Eligible(roundStart[p], runConnections[p]) =>
              /\ i \in ran[p] \cup {nodesToRun[p][k] : k \in DOMAIN nodesToRun[p]}
              /\ i \in ran[p] => currentNodes[p][i].status # "IDLE"
              /\ pc[p] = "sleep" => i \in ran[p]

\* in the run after a retry, the call of a node outside the reset set is
\* awaited, and a source node outside the reset set has been completed
C30_Witness ==
  \E p \in Procs :
     /\ pc[p] = "await"
     /\ runKind[p].op = "retry"
     /\ inflight[p].id \notin ResetSet(p)
     /\ nodes[inflight[p].id].status = "RUNNING"
     /\ \E s \in DOMAIN currentNodes[p] \ ResetSet(p) :
          /\ currentNodes[p][s].type \in {"INPUT", "IMAGE_NODE"}
          /\ currentNodes[p][s].status = "COMPLETED"

\* ------------------------------------------------------------- C31..C36
\* C31: isExecuting is TRUE whenever an invocation of processWorkflowQueue is
\* in flight (it awaits an operation of a node or the pause of a round), and
\* FALSE when no call chain is pending.
C31_ExecutingWhileInFlight ==
  /\ (\E p \in Procs : Running(p)) => isExecuting
  /\ (\A p \in Procs : Free(p)) => ~isExecuting

\* a click on Retry, whichever way handleRetryNode goes
RetryClick ==
  \/ \E id \in AllIds : handleRetryNodeRejected(id)
  \/ \E p \in Procs : \E id \in AllIds : handleRetryNode(p, id)

\* C32: a click on Retry while isExecuting is TRUE does nothing: no node is
\* reset, no status, content or errorMessage changes in the workspace or in the
\* working copy of a run, and no invocation of the scheduler is started.
C32_RetryWhileExecuting ==
  [][isExecuting =>
       /\ RetryClick =>
            UNCHANGED <<nodes, connections, isExecuting, pc, currentNodes,
                        runConnections, nodesToRun, inflight, hasProcessed,
                        runKind, dispatches, otherWorkspaces>>
       /\ \A p \in Procs :
             pc[p] # "delay" /\ pc'[p] = "delay" => runKind'[p].op # "retry"]_vars

C32_Witness ==
  /\ retryRejected
  /\ isExecuting
  /\ \E p \in Procs : Running(p)
  /\ \E i \in DOMAIN nodes : nodes[i].status = "ERROR"

\* a step in which invocation p computes the nodesToRun of a pass of its loop
PassBegins(p) ==
  \/ pc[p] = "delay" /\ pc'[p] \in {"await", "sleep"}
  \/ /\ pc[p] = "sleep" /\ hasProcessed[p]
     /\ \/ pc'[p] = "await"
        \/ pc'[p] = "sleep" /\ ~hasProcessed'[p]

\* C33: on any graph, cycles and nodes that never become eligible included,
\* every pass of the loop either sets Running a node that was IDLE before the
\* pass, and thereby takes one more node of the working copy out of IDLE for
\* good, or clears the loop flag, after which the call can only leave the loop;
\* so an invocation has at most |Nodes| passes that dispatch, and every
\* position before the end has a continuation once the awaited call settles.
C33_EveryPassProgresses ==
  [][\A p \in Procs :
       /\ PassBegins(p) =>
            \/ /\ pc'[p] = "await" /\ hasProcessed'[p]
               /\ Len(nodesToRun'[p]) > 0
               /\ currentNodes[p][Head(nodesToRun'[p])].status = "IDLE"
               /\ currentNodes'[p][Head(nodesToRun'[p])].status = "RUNNING"
               /\ rounds'[p] = rounds[p] + 1
            \/ /\ pc'[p] = "sleep" /\ ~hasProcessed'[p]
               /\ Len(nodesToRun'[p]) = 0
               /\ rounds'[p] = rounds[p]
       /\ (pc[p] = "sleep" /\ ~hasProcessed[p]) => pc'[p] \in {"sleep", "done", "idle"}
       /\ (Running(p) /\ Running(p)') =>
            NotIdle(currentNodes[p]) \subseteq NotIdle(currentNodes'[p])
       /\ Running(p) =>
            /\ rounds[p] <= Cardinality(NotIdle(currentNodes[p]))
            /\ rounds[p] <= Cardinality(DOMAIN currentNodes[p])
       /\ pc[p] = "await" =>
            /\ Len(nodesToRun[p]) > 0
            /\ inflight[p].op \in {"preview", "generateText"}]_vars

\* an invocation on a graph with a cycle has dispatched a node and is about to
\* leave its loop with the nodes of the cycle still IDLE
C33_Witness ==
  \E p \in Procs :
    /\ pc[p] = "sleep" /\ ~hasProcessed[p]
    /\ ~IsDAG(runConnections[p])
    /\ rounds[p] >= 1
    /\ \E i \in OnCycle(runConnections[p]) : currentNodes[p][i].status = "IDLE"

\* the fields of a node that the user sets
Config(n) == <<n.type, n.userPrompt, n.imageUrls, n.customTemplate>>

\* C34: an invocation decides what runs and builds its payloads from the
\* connections and the node configuration captured at the click that started
\* it. The captured connections and configuration are those of the workspace
\* at the click and stay as they are until the run ends, whatever is edited
\* meanwhile; every node the run dispatches is eligible under the captured
\* connections, and its prompt is built from the captured template and the
\* captured connections.
C34_RunUsesCapturedGraph ==
  [][\A p \in Procs :
       /\ (Free(p) /\ pc'[p] = "delay") =>
            /\ runConnections'[p] = connections
            /\ DOMAIN currentNodes'[p] = DOMAIN nodes
            /\ \A i \in DOMAIN nodes : Config(currentNodes'[p][i]) = Config(nodes[i])
       /\ (~Free(p) /\ ~Free(p)') =>
            /\ runConnections'[p] = runConnections[p]
            /\ DOMAIN currentNodes'[p] = DOMAIN currentNodes[p]
            /\ \A i \in DOMAIN currentNodes[p] :
                  Config(currentNodes'[p][i]) = Config(currentNodes[p][i])
       /\ (pc'[p] = "await" /\ inflight'[p] # inflight[p]) =>
            LET i == inflight'[p].id
                cur == currentNodes'[p]
                text == TextPayload(cur, runConnections[p], i)
            IN /\ i \in Eligible(roundStart'[p], runConnections[p])
               /\ cur[i].type = "OUTPUT_PREVIEW" => inflight'[p].prompt = text
               /\ cur[i].type \in {"AI_GENERATOR", "AI_OPTIMIZER", "AI_FACT_CHECK"} =>
                    inflight'[p].prompt = GeneratorRequest(cur, runConnections[p], i)
               /\ (cur[i].type = "AI_CODER" /\ cur[i].customTemplate # <<>>) =>
                    IsInfix(<<"CONTENT TO INSERT:">> \o text \o <<"HTML TEMPLATE:">>
                              \o cur[i].customTemplate \o <<"INSTRUCTIONS:">>,
                            inflight'[p].prompt)]_vars

\* a Coder node whose template was edited in the panel after the click on Run
\* has been dispatched with the template it had at the click
C34_Witness ==
  /\ pc[1] = "await"
  /\ inflight[1].id \in DOMAIN nodes
  /\ currentNodes[1][inflight[1].id].type = "AI_CODER"
  /\ nodes[inflight[1].id].customTemplate = <<"edited">>
  /\ currentNodes[1][inflight[1].id].customTemplate = <<"tpl">>
  /\ IsInfix(<<"HTML TEMPLATE:", "tpl", "INSTRUCTIONS:">>, inflight[1].prompt)
  /\ runKind[1].op = "run"

\* the node lists of all workspaces, the Home workspace first
AllWorkspaceNodes ==
  [w \in {Home} \cup DOMAIN otherWorkspaces |->
     IF w = Home THEN nodes ELSE otherWorkspaces[w].nodes]

\* C35: when the page has loaded the persisted workspaces, no node of any
\* workspace, active or not, is Running: a node persisted as Running is loaded
\* as Idle with its other fields as persisted, every other node is loaded as
\* it was persisted, and no workspace or node is lost or added.
C35_LoadedWithoutRunning ==
  [][reloadPage =>
       /\ DOMAIN AllWorkspaceNodes' = DOMAIN AllWorkspaceNodes
       /\ \A w \in DOMAIN AllWorkspaceNodes :
            LET persisted == AllWorkspaceNodes[w]
                loaded == AllWorkspaceNodes'[w]
            IN /\ DOMAIN loaded = DOMAIN persisted
               /\ \A i \in DOMAIN persisted :
                    /\ loaded[i].status # "RUNNING"
                    /\ persisted[i].status = "RUNNING" =>
                         loaded[i] = [persisted[i] EXCEPT !.status = "IDLE"]
                    /\ persisted[i].status # "RUNNING" => loaded[i] = persisted[i]]_vars

\* the page was reloaded while a run in the Home workspace awaited the first
\* node of its first round and another workspace was the active one: the
\* input node is Completed as persisted, the node that was Running is Idle
C35_Witness ==
  /\ \A p \in Procs : pc[p] = "idle"
  /\ ~isExecuting
  /\ activeWorkspaceId # Home
  /\ \A i \in DOMAIN nodes : nodes[i].status \in {"IDLE", "COMPLETED"}
  /\ \E a, b \in DOMAIN nodes :
        /\ nodes[a].type = "INPUT" /\ nodes[a].status = "COMPLETED"
        /\ nodes[b].type = "AI_GENERATOR" /\ nodes[b].status = "IDLE"
        /\ Sources(connections, b) = {a}
        /\ \A c \in DOMAIN nodes \ {a, b} : nodes[c].type = "INPUT"

\* C36: the connection list has no connection from a node to itself and no
\* two connections with the same source and target, whatever connections were
\* drawn and deleted; a gesture that makes a connection adds exactly one, at
\* the end of the list.
C36_NoSelfLoopNoDuplicate ==
  [][/\ \A k \in DOMAIN connections :
          /\ connections[k].sourceId # connections[k].targetId
          /\ \A j \in DOMAIN connections :
                j # k => \/ connections[j].sourceId # connections[k].sourceId
                         \/ connections[j].targetId # connections[k].targetId
     /\ Len(connections') > Len(connections) =>
          /\ Len(connections') = Len(connections) + 1
          /\ SubSeq(connections', 1, Len(connections)) = connections
          /\ LET c == connections'[Len(connections')]
             IN /\ c.sourceId # c.targetId
                /\ \A k \in DOMAIN connections : connections[k] # c]_vars

\* a connection was drawn back from the target of an existing connection to
\* its source: the second of the two is the one drawn, and the list is full
C36_Witness ==
  /\ Len(connections) = 2
  /\ connections[2].sourceId = connections[1].targetId
  /\ connections[2].targetId = connections[1].sourceId
  /\ ~Before(connections[1], connections[2])
  /\ userOps >= 1

====
